---- MODULE Spec2Model ----
(***************************************************************************)
(* A model of the JMESPath pipeline of jmespath.rs: the lexer              *)
(* (src/src/lexer.rs), the opcode compiler (src/src/compiler.rs) and the   *)
(* built-in function library (src/src/functions.rs).  The stack VM, the    *)
(* tree interpreter and the value type are not part of the sources at      *)
(* hand; they are modelled from the design document (sections 3, 4.3 and   *)
(* 4.4) and are marked as such where they are defined.                     *)
(***************************************************************************)
EXTENDS Integers, Sequences, FiniteSets, TLC

VARIABLES
    \* ---- compiler and VM ----
    ast,          \* the AST handed to compile_opcodes
    input,        \* the value in register 0 / the interpreter's current value
    cstate,       \* "new" | "compiled" | "running" | "halted" | "fault"
    opcodes,      \* result of compile_opcodes
    pc,           \* VM program counter (0-based instruction index)
    stack,        \* VM operand stack, top of stack last
    \* ---- lexer ----
    source,       \* the expression, a sequence of characters
    iter,         \* number of characters of source already consumed
    sent_eof,     \* Lexer.sent_eof
    last_position,\* Lexer.last_position
    yielded,      \* every Some((offset, token)) returned so far, in order
    lstate,       \* "lexing" | "finished" (next() returned None) | "panicked"
    \* ---- function library ----
    fname,        \* the built-in being called
    fargs,        \* its argument vector
    fstate,       \* "ready" | "done" (evaluate has returned) | "panicked"
    fresult       \* what evaluate returned, with the interpreter calls it made

cvars == <<ast, input, cstate, opcodes, pc, stack>>
lvars == <<source, iter, sent_eof, last_position, yielded, lstate>>
fvars == <<fname, fargs, fstate, fresult>>
vars == <<cvars, lvars, fvars>>

(***************************************************************************)
(* Bounds of the model.                                                    *)
(***************************************************************************)
\* Largest number of binary nodes in a generated AST.
MaxOps == 2
\* Longest source over the whole alphabet Sigma.
MaxLen == 3
\* Longest run of the digit 9 a source is made of.
MaxRun == 10

(***************************************************************************)
(* Values (Json in compiler.rs, Variable in functions.rs).                 *)
(* A number is a fraction num/den with den > 0, or den = 0 for the F64     *)
(* values that are not finite: 0/0 is NaN, n/0 an infinity.                *)
(***************************************************************************)
Null == [k |-> "null"]
Bool(b) == [k |-> "boolean", b |-> b]
Num(t, n, d) == [k |-> "number", t |-> t, num |-> n, den |-> d]
I64(n) == Num("I64", n, 1)
\* A string is the sequence of its characters.
Str(s) == [k |-> "string", s |-> s]
Arr(a) == [k |-> "array", a |-> a]
Obj(o) == [k |-> "object", o |-> o]
Expref(a) == [k |-> "expref", ast |-> a]

\* Variable::get_type
get_type(v) == v.k

(***************************************************************************)
(* AST (ast.rs, as used by compiler.rs).                                   *)
(***************************************************************************)
CurrentNode == [t |-> "CurrentNode"]
Identifier(s) == [t |-> "Identifier", name |-> s]
Index(i) == [t |-> "Index", i |-> i]
Literal(j) == [t |-> "Literal", json |-> j]
Subexpr(l, r) == [t |-> "Subexpr", lhs |-> l, rhs |-> r]
Or(l, r) == [t |-> "Or", lhs |-> l, rhs |-> r]
Comparison(c, l, r) == [t |-> "Comparison", cmp |-> c, lhs |-> l, rhs |-> r]
Condition(l, r) == [t |-> "Condition", lhs |-> l, rhs |-> r]

Comparator == {"Lt", "Lte", "Gt", "Gte", "Eq", "Ne"}

\* The names used in the generated ASTs and values.
foo == <<"f", "o", "o">>
bar == <<"b", "a", "r">>

(***************************************************************************)
(* Opcodes (vm::Opcode, as used by compiler.rs).                           *)
(***************************************************************************)
OpHalt == [op |-> "Halt"]
OpLoad(r) == [op |-> "Load", reg |-> r]
OpPush(j) == [op |-> "Push", json |-> j]
OpField(s) == [op |-> "Field", name |-> s]
OpIndex(u) == [op |-> "Index", u |-> u]
OpNegativeIndex(u) == [op |-> "NegativeIndex", u |-> u]
OpTruthy == [op |-> "Truthy"]
OpCmp(c) == [op |-> c]
OpBr(t) == [op |-> "Br", target |-> t]
OpBrt(t) == [op |-> "Brt", target |-> t]
OpBrf(t) == [op |-> "Brf", target |-> t]

(***************************************************************************)
(* compiler.rs                                                             *)
(***************************************************************************)
\* merge_opcodes: every opcode of b pushed onto a, in order.
merge_opcodes(a, b) == a \o b

\* A panic that unwinds out of the compiler.  It is carried in the place of
\* the opcodes it cuts short, and no opcode sequence is returned.
Unwind(msg) == [op |-> "panic!", msg |-> msg]

\* The call did not return: a panic was raised somewhere below it.
Unwinds(ops) == \E k \in 1..Len(ops) : ops[k].op = "panic!"

\* i32::MIN
I32Min == -2147483647 - 1

\* i.abs() where it does not panic: i32::MIN has no positive counterpart and
\* wraps to itself.
Abs32(i) == IF i = I32Min THEN I32Min ELSE IF i < 0 THEN -i ELSE i

\* x - 1 in i32 where it does not panic: i32::MIN - 1 wraps to i32::MAX.
WrappingDecrement(x) == IF x = I32Min THEN 2147483647 ELSE x - 1

\* The Ast::Index arm.  (i.abs() - 1) as usize overflows for i32::MIN: a
\* build with overflow checks panics at abs(), one without them wraps.
CompileIndex(i, overflow_checks) ==
    IF i < 0
    THEN IF i = I32Min /\ overflow_checks
         THEN <<Unwind("attempt to negate with overflow")>>
         ELSE <<OpNegativeIndex(WrappingDecrement(Abs32(i)))>>
    ELSE <<OpIndex(i)>>

\* The comparator match of the Ast::Comparison arm.
CmpOpcode(c) ==
    CASE c = "Lt" -> OpCmp("Lt")
      [] c = "Lte" -> OpCmp("Lte")
      [] c = "Gt" -> OpCmp("Gt")
      [] c = "Gte" -> OpCmp("Gte")
      [] c = "Eq" -> OpCmp("Eq")
      [] c = "Ne" -> OpCmp("Ne")

\* A bug the Or arm could have: the target is one past the end of the rhs.
OrBranchTargetPastEnd(next_offset, right_len) == next_offset + right_len + 1

\* Opcode::Brt(next_offset + right.len())
OrBranchTarget(next_offset, right_len) == next_offset + right_len

\* Opcode::Brf(next_offset + right.len() + 1)
ConditionBrfTarget(next_offset, right_len) == next_offset + right_len + 1

\* let next_offset = opcodes.len() + 2; Opcode::Br(next_offset)
ConditionBrTarget(len) == len + 2

\* A next_offset counted from the start of the whole program.
next_offset_absolute(offset, len) == offset + len + 1

\* let next_offset = opcodes.len() + 1, in a call given offset.
next_offset_of(offset, len) == len + 1

RECURSIVE compile_with_offset(_, _, _)
compile_with_offset(a, offset, overflow_checks) ==
    CASE a.t = "CurrentNode" -> <<OpLoad(0)>>
      [] a.t = "Identifier" -> <<OpField(a.name)>>
      [] a.t = "Index" -> CompileIndex(a.i, overflow_checks)
      [] a.t = "Or" ->
            LET o1 == merge_opcodes(<<>>, compile_with_offset(a.lhs, offset, overflow_checks))
                o2 == Append(o1, OpTruthy)
                next_offset == next_offset_of(offset, Len(o2))
                right == compile_with_offset(a.rhs, next_offset, overflow_checks)
                o3 == Append(o2, OpBrt(OrBranchTarget(next_offset, Len(right))))
            IN  merge_opcodes(o3, right)
      [] a.t = "Subexpr" ->
            LET o1 == merge_opcodes(<<>>, compile_with_offset(a.lhs, offset, overflow_checks))
            IN  merge_opcodes(o1, compile_with_offset(a.rhs, offset, overflow_checks))
      [] a.t = "Comparison" ->
            LET o1 == merge_opcodes(<<>>, compile_with_offset(a.lhs, offset, overflow_checks))
                o2 == merge_opcodes(o1, compile_with_offset(a.rhs, offset, overflow_checks))
            IN  Append(o2, CmpOpcode(a.cmp))
      [] a.t = "Condition" ->
            LET o1 == merge_opcodes(<<>>, compile_with_offset(a.lhs, offset, overflow_checks))
                o2 == Append(Append(o1, OpPush(Bool(TRUE))), OpCmp("Eq"))
                next_offset == next_offset_of(offset, Len(o2))
                right == compile_with_offset(a.rhs, next_offset, overflow_checks)
                o3 == Append(o2, OpBrf(ConditionBrfTarget(next_offset, Len(right))))
                o4 == merge_opcodes(o3, right)
                o5 == Append(o4, OpBr(ConditionBrTarget(Len(o4))))
            IN  Append(o5, OpPush(Null))
      [] a.t = "Literal" -> <<OpPush(a.json)>>
      [] OTHER -> <<Unwind("not implemented yet!")>>

\* compile_opcodes: the program of the AST, then Halt.
compile_opcodes(a, overflow_checks) ==
    Append(compile_with_offset(a, 0, overflow_checks), OpHalt)

(***************************************************************************)
(* The ASTs the compiler is run on: every tree over Leaves with at most    *)
(* MaxOps binary nodes, one comparison per comparator, and the other       *)
(* leaves alone and under one node.                                        *)
(***************************************************************************)
Leaves ==
    { CurrentNode, Identifier(foo), Index(-2), Literal(Bool(TRUE)),
      Literal(Null) }

\* The nodes of two operands, the left one from L and the right one from R.
Binary(L, R) ==
    [t : {"Subexpr", "Or", "Condition"}, lhs : L, rhs : R]
    \cup [t : {"Comparison"}, cmp : {"Eq"}, lhs : L, rhs : R]

\* ASTs with the leaf and the comparators Leaves and Binary leave out.
OtherAsts ==
    { Comparison(c, Identifier(foo), Identifier(bar)) : c \in Comparator }
    \cup { Index(1),
           Subexpr(Identifier(foo), Index(1)),
           Or(Literal(Null), Index(1)),
           Condition(Literal(Bool(TRUE)), Index(1)),
           Comparison("Lt", Index(1), Index(-2)),
           Index(I32Min),
           Subexpr(Identifier(foo), Index(I32Min)),
           Or(Index(I32Min), Literal(Null)) }

\* One node of each kind that has no arm of its own in compile_with_offset.
OutOfSubset ==
    { [t |-> "Pipe", lhs |-> Identifier(foo), rhs |-> Identifier(bar)],
      [t |-> "Not", node |-> Identifier(foo)],
      [t |-> "Projection", lhs |-> Identifier(foo), rhs |-> CurrentNode],
      [t |-> "Flatten", node |-> Identifier(foo)],
      [t |-> "MultiList", elements |-> <<Identifier(foo), Identifier(bar)>>],
      [t |-> "MultiHash",
       elements |-> <<[key |-> foo, value |-> Identifier(bar)]>>],
      [t |-> "Function", name |-> foo, args |-> <<CurrentNode>>],
      [t |-> "ExpRef", node |-> Identifier(foo)],
      [t |-> "Slice", start |-> 0, stop |-> 1, step |-> 1] }

\* Those nodes at the root, as either operand of a supported node, and two
\* levels down.
UnsupportedAsts ==
    OutOfSubset
    \cup Binary(OutOfSubset, {CurrentNode})
    \cup Binary({Identifier(foo)}, OutOfSubset)
    \cup { Or(Literal(Null), Subexpr(Identifier(foo), n)) : n \in OutOfSubset }
    \cup { Condition(Comparison("Eq", n, Literal(Null)), CurrentNode) :
               n \in OutOfSubset }

\* The trees of exactly n binary nodes.
RECURSIVE Trees(_)
Trees(n) ==
    IF n = 0 THEN Leaves
    ELSE UNION { Binary(Trees(k), Trees(n - 1 - k)) : k \in 0..(n - 1) }

AstSet ==
    UNION { Trees(n) : n \in 0..MaxOps }
    \cup OtherAsts
    \cup UnsupportedAsts

\* The values the programs are run on.
Inputs ==
    { Null,
      Bool(TRUE),
      Arr(<<I64(1), Bool(TRUE), Obj(foo :> Null)>>),
      Obj((foo :> Bool(TRUE)) @@ (bar :> I64(1))),
      Obj(foo :> Arr(<<Str(<<>>), Obj(foo :> I64(2))>>)) }

(***************************************************************************)
(* Value operations shared by the tree interpreter and the VM.  They are   *)
(* modelled from the design document, sections 3 and 4.4.                  *)
(***************************************************************************)
\* "Truthy: not null, not false, not empty string/array/object."
IsTruthy(v) ==
    CASE v.k = "null" -> FALSE
      [] v.k = "boolean" -> v.b
      [] v.k = "string" -> Len(v.s) > 0
      [] v.k = "array" -> Len(v.a) > 0
      [] v.k = "object" -> DOMAIN v.o # {}
      [] OTHER -> TRUE

\* Field lookup on an object (missing key -> null); non-object -> null.
GetField(v, name) ==
    IF v.k = "object" /\ name \in DOMAIN v.o THEN v.o[name] ELSE Null

\* Array indexing from the front; out of range -> null; non-array -> null.
GetIndex(v, u) ==
    IF v.k = "array" /\ u >= 0 /\ u < Len(v.a) THEN v.a[u + 1] ELSE Null

\* Array indexing from the end: NegativeIndex(u) is element len - 1 - u.
GetNegativeIndex(v, u) ==
    IF v.k = "array" /\ u >= 0 /\ u < Len(v.a) THEN v.a[Len(v.a) - u] ELSE Null

\* Numbers compare by numeric value (fractions by cross-multiplication).
NumLt(a, b) == a.den > 0 /\ b.den > 0 /\ a.num * b.den < b.num * a.den
NumEq(a, b) == a.den > 0 /\ b.den > 0 /\ a.num * b.den = b.num * a.den

\* Structural, kind-sensitive equality.
ValEq(a, b) ==
    IF a.k # b.k THEN FALSE
    ELSE IF a.k = "number" THEN NumEq(a, b)
    ELSE a = b

\* Eq/Ne on all kinds; the ordering comparators on two numbers, else null.
Compare(c, a, b) ==
    CASE c = "Eq" -> Bool(ValEq(a, b))
      [] c = "Ne" -> Bool(~ValEq(a, b))
      [] OTHER ->
            IF a.k = "number" /\ b.k = "number"
            THEN CASE c = "Lt" -> Bool(NumLt(a, b))
                   [] c = "Lte" -> Bool(NumLt(a, b) \/ NumEq(a, b))
                   [] c = "Gt" -> Bool(NumLt(b, a))
                   [] c = "Gte" -> Bool(NumLt(b, a) \/ NumEq(a, b))
            ELSE Null

(***************************************************************************)
(* The tree interpreter on the compiler's subset (design document 4.4).    *)
(***************************************************************************)
RECURSIVE Interpret(_, _)
Interpret(a, cur) ==
    CASE a.t = "CurrentNode" -> cur
      [] a.t = "Identifier" -> GetField(cur, a.name)
      [] a.t = "Index" ->
            IF a.i >= 0 THEN GetIndex(cur, a.i)
            ELSE GetNegativeIndex(cur, WrappingDecrement(Abs32(a.i)))
      [] a.t = "Literal" -> a.json
      [] a.t = "Subexpr" -> Interpret(a.rhs, Interpret(a.lhs, cur))
      [] a.t = "Or" ->
            LET l == Interpret(a.lhs, cur)
            IN  IF IsTruthy(l) THEN l ELSE Interpret(a.rhs, cur)
      [] a.t = "Comparison" ->
            Compare(a.cmp, Interpret(a.lhs, cur), Interpret(a.rhs, cur))
      [] a.t = "Condition" ->
            IF Interpret(a.lhs, cur) = Bool(TRUE)
            THEN Interpret(a.rhs, cur) ELSE Null

(***************************************************************************)
(* The stack VM (design document 3 and 4.3).  Register 0 holds the input,  *)
(* which is also the initial operand; an instruction pops its operands     *)
(* and pushes its result; Truthy pushes the truthiness of the top of the   *)
(* stack and leaves the value below it; Brt and Brf pop the flag.          *)
(***************************************************************************)
\* Deepest operand stack the VM is followed to.
MaxStack == 6

Top(s) == s[Len(s)]
Pop(s, n) == SubSeq(s, 1, Len(s) - n)

\* Operands an instruction takes from the stack.
Operands(o) ==
    CASE o.op \in {"Field", "Index", "NegativeIndex", "Truthy", "Brt", "Brf"} -> 1
      [] o.op \in Comparator -> 2
      [] OTHER -> 0

\* The stack after the instruction.
ExecStack(o, s) ==
    CASE o.op = "Load" -> Append(s, input)
      [] o.op = "Push" -> Append(s, o.json)
      [] o.op = "Field" -> Append(Pop(s, 1), GetField(Top(s), o.name))
      [] o.op = "Index" -> Append(Pop(s, 1), GetIndex(Top(s), o.u))
      [] o.op = "NegativeIndex" ->
            Append(Pop(s, 1), GetNegativeIndex(Top(s), o.u))
      [] o.op = "Truthy" -> Append(s, Bool(IsTruthy(Top(s))))
      [] o.op \in Comparator ->
            Append(Pop(s, 2), Compare(o.op, s[Len(s) - 1], s[Len(s)]))
      [] o.op \in {"Brt", "Brf"} -> Pop(s, 1)
      [] OTHER -> s

\* The program counter after the instruction.
ExecPc(o, s, p) ==
    CASE o.op = "Br" -> o.target
      [] o.op = "Brt" -> IF Top(s) = Bool(TRUE) THEN o.target ELSE p + 1
      [] o.op = "Brf" -> IF Top(s) = Bool(FALSE) THEN o.target ELSE p + 1
      [] OTHER -> p + 1

(***************************************************************************)
(* Compiler and VM: the state machine.                                     *)
(***************************************************************************)
LexerIdle ==
    /\ source = <<>> /\ iter = 0 /\ sent_eof = FALSE /\ last_position = 0
    /\ yielded = <<>> /\ lstate = "lexing"

FunctionsIdle ==
    /\ fname = "" /\ fargs = <<>> /\ fstate = "ready" /\ fresult = <<>>

CompilerInit ==
    /\ ast \in AstSet
    /\ input \in Inputs
    /\ cstate = "new"
    /\ opcodes = <<>>
    /\ pc = 0
    /\ stack = <<>>

\* compile_opcodes(&ast)
Compile ==
    /\ cstate = "new"
    /\ \E overflow_checks \in BOOLEAN :
          \E r \in {compile_opcodes(ast, overflow_checks)} :
              IF Unwinds(r)
              THEN cstate' = "panicked" /\ opcodes' = opcodes
              ELSE cstate' = "compiled" /\ opcodes' = r
    /\ UNCHANGED <<ast, input, pc, stack, lvars, fvars>>

\* The VM is started on the program with the input in register 0.
VmStart ==
    /\ cstate = "compiled"
    /\ pc' = 0
    /\ stack' = <<input>>
    /\ cstate' = "running"
    /\ UNCHANGED <<ast, input, opcodes, lvars, fvars>>

\* One instruction.
VmStep ==
    /\ cstate = "running"
    /\ IF pc >= Len(opcodes) THEN
            cstate' = "fault" /\ UNCHANGED <<pc, stack>>
       ELSE LET o == opcodes[pc + 1] IN
            IF o.op = "Halt" THEN
                cstate' = "halted" /\ UNCHANGED <<pc, stack>>
            ELSE IF Len(stack) < Operands(o) \/ Len(stack) >= MaxStack THEN
                cstate' = "fault" /\ UNCHANGED <<pc, stack>>
            ELSE
                /\ stack' = ExecStack(o, stack)
                /\ pc' = ExecPc(o, stack, pc)
                /\ cstate' = "running"
    /\ UNCHANGED <<ast, input, opcodes, lvars, fvars>>

CompilerNext == Compile \/ VmStart \/ VmStep

\* The compiler and the VM alone.
InitCompiler == CompilerInit /\ LexerIdle /\ FunctionsIdle
SpecCompiler == InitCompiler /\ [][CompilerNext]_vars

\* compile_opcodes alone, on every AST of AstSet.
CompileInit ==
    /\ ast \in AstSet
    /\ input = Null
    /\ cstate = "new"
    /\ opcodes = <<>>
    /\ pc = 0
    /\ stack = <<>>

InitCompile == CompileInit /\ LexerIdle /\ FunctionsIdle
SpecCompile == InitCompile /\ [][Compile]_vars

(***************************************************************************)
(* Properties of the compiler.                                             *)
(***************************************************************************)
\* Number of opcodes the lowering of section 4.3 emits for a node.
RECURSIVE NodeLen(_)
NodeLen(a) ==
    CASE a.t \in {"Subexpr"} -> NodeLen(a.lhs) + NodeLen(a.rhs)
      [] a.t \in {"Comparison"} -> NodeLen(a.lhs) + NodeLen(a.rhs) + 1
      [] a.t \in {"Or"} -> NodeLen(a.lhs) + NodeLen(a.rhs) + 2
      [] a.t \in {"Condition"} -> NodeLen(a.lhs) + NodeLen(a.rhs) + 5
      [] OTHER -> 1

\* The instruction at 0-based index i of program p.
At(p, i) == p[i + 1]

\* Where the right operand of a node starts when the node starts at s.
RhsStart(a, s) ==
    CASE a.t = "Or" -> s + NodeLen(a.lhs) + 2
      [] a.t = "Condition" -> s + NodeLen(a.lhs) + 3
      [] OTHER -> s + NodeLen(a.lhs)

IsBinary(a) == a.t \in {"Subexpr", "Or", "Comparison", "Condition"}

\* Every Or node of a, which starts at index s of program p, has its Brt
\* target the index just after its own right operand.
RECURSIVE OrTargetsAbsolute(_, _, _)
OrTargetsAbsolute(a, s, p) ==
    IF ~IsBinary(a) THEN TRUE
    ELSE /\ OrTargetsAbsolute(a.lhs, s, p)
         /\ OrTargetsAbsolute(a.rhs, RhsStart(a, s), p)
         /\ a.t = "Or" =>
               At(p, s + NodeLen(a.lhs) + 1) =
                   OpBrt(RhsStart(a, s) + NodeLen(a.rhs))

\* Every Condition node of a, which starts at index s of program p, is laid
\* out as predicate; Push(true); Eq; Brf(t1); consequent; Br(t2); Push(Null)
\* with t1 the index of that Push(Null) and t2 the index after it.
RECURSIVE ConditionLayoutAbsolute(_, _, _)
ConditionLayoutAbsolute(a, s, p) ==
    IF ~IsBinary(a) THEN TRUE
    ELSE /\ ConditionLayoutAbsolute(a.lhs, s, p)
         /\ ConditionLayoutAbsolute(a.rhs, RhsStart(a, s), p)
         /\ a.t = "Condition" =>
               LET e == s + NodeLen(a.lhs)
                   n == RhsStart(a, s) + NodeLen(a.rhs) + 1
               IN  /\ At(p, e) = OpPush(Bool(TRUE))
                   /\ At(p, e + 1) = OpCmp("Eq")
                   /\ At(p, e + 2) = OpBrf(n)
                   /\ At(p, n - 1) = OpBr(n + 1)
                   /\ At(p, n) = OpPush(Null)

IsBranch(o) == o.op \in {"Br", "Brt", "Brf"}

\* C1: when the VM halts on compile_opcodes(ast) started with input in
\* register 0, the value it produced (the top of its stack) is the value the
\* tree interpreter gives for ast with current = input.
C1_VmAgreesWithInterpreter ==
    cstate = "halted" =>
        /\ Len(stack) > 0
        /\ Top(stack) = Interpret(ast, input)

\* C2: in the program returned by compile_opcodes, the Brt of every Or node,
\* wherever the node occurs, targets the absolute index of the instruction
\* right after the last instruction of that node's compiled rhs.
C2_OrBranchTargetsAbsolute ==
    cstate = "compiled" => OrTargetsAbsolute(ast, 0, opcodes)

\* C3: in the program returned by compile_opcodes, every Condition node,
\* wherever it occurs, is emitted as p; Push(true); Eq; Brf(t1); c; Br(t2);
\* Push(Null) with t1 the absolute index of the Push(Null) and t2 the
\* absolute index of the instruction after it.
C3_ConditionLayoutAbsolute ==
    cstate = "compiled" => ConditionLayoutAbsolute(ast, 0, opcodes)

\* C10: in every program returned by compile_opcodes, Halt occurs exactly
\* once, as the last instruction, and every Br, Brt and Brf targets an index
\* between 0 and the index of that Halt.
C10_HaltLastAndTargetsInRange ==
    cstate = "compiled" =>
        LET n == Len(opcodes) IN
        /\ n >= 1
        /\ opcodes[n] = OpHalt
        /\ \A i \in 1..(n - 1) : opcodes[i] # OpHalt
        /\ \A i \in 1..n :
              IsBranch(opcodes[i]) =>
                  opcodes[i].target >= 0 /\ opcodes[i].target <= n - 1

\* The supported subset of compile_with_offset.
RECURSIVE InSubset(_)
InSubset(a) ==
    CASE a.t \in {"CurrentNode", "Identifier", "Index", "Literal"} -> TRUE
      [] IsBinary(a) -> InSubset(a.lhs) /\ InSubset(a.rhs)
      [] OTHER -> FALSE

\* C11: compiling an AST that contains a node outside the supported subset,
\* at the root or nested in a supported node, does not abort: it ends with a
\* compile error returned to the caller, and no opcode sequence.
C11_OutOfSubsetIsCompileError ==
    (cstate # "new" /\ ~InSubset(ast)) =>
        /\ cstate = "compile_error"
        /\ opcodes = <<>>

\* C12: for every 32-bit signed i, compiling Index(i) yields the single
\* opcode Index(i) when i >= 0 and NegativeIndex(|i| - 1) when i < 0; for
\* i = -2^31 that is NegativeIndex(2^31 - 1), reached without overflow or
\* abort.
C12_IndexCompilesForEveryI32 ==
    (cstate # "new" /\ ast.t = "Index") =>
        /\ cstate = "compiled"
        /\ opcodes =
              << IF ast.i >= 0 THEN OpIndex(ast.i)
                 ELSE IF ast.i = I32Min THEN OpNegativeIndex(2147483647)
                 ELSE OpNegativeIndex(-ast.i - 1),
                 OpHalt >>

\* A compiled program with a Condition nested in the right operand of an Or:
\* three branches, none of them emitted by the root's left spine.
C10_Witness ==
    /\ cstate = "compiled"
    /\ ast.t = "Or"
    /\ ast.rhs.t = "Condition"
    /\ Cardinality({i \in 1..Len(opcodes) : IsBranch(opcodes[i])}) = 3

(***************************************************************************)
(* lexer.rs: characters.  A character is a one-character string; the one   *)
(* character outside ASCII is written by its code point.                   *)
(***************************************************************************)
\* ARABIC-INDIC DIGIT THREE: char::is_numeric holds of it, is_digit(10)
\* does not, and it takes two bytes in UTF-8.
ArabicThree == "U+0663"

\* GRAVE ACCENT, the delimiter of JSON literals, written by its code point
\* as well.
Backtick == "U+0060"

AsciiLower ==
    { "a", "b", "c", "d", "e", "f", "g", "h", "i", "j", "k", "l", "m",
      "n", "o", "p", "q", "r", "s", "t", "u", "v", "w", "x", "y", "z" }
AsciiUpper ==
    { "A", "B", "C", "D", "E", "F", "G", "H", "I", "J", "K", "L", "M",
      "N", "O", "P", "Q", "R", "S", "T", "U", "V", "W", "X", "Y", "Z" }
AsciiDigit == { "0", "1", "2", "3", "4", "5", "6", "7", "8", "9" }

\* c.is_digit(10)
is_digit(c) == c \in AsciiDigit

\* c.is_numeric(): the Unicode numeric characters.
is_numeric(c) == c \in AsciiDigit \cup {ArabicThree}

\* Bytes the character takes in the source (str::len, char_indices).
len_utf8(c) == IF c = ArabicThree THEN 2 ELSE 1

\* A bug the whitespace arm could have: only the space is skipped.
IsSpace(c) == c = " "

\* ' ' | '\n' | '\t' | '\r'
IsWhitespace(c) == c \in {" ", "\n", "\t", "\r"}

\* 'a' ... 'z' | 'A' ... 'Z' | '_'
IsIdentifierStart(c) == c \in AsciiLower \cup AsciiUpper \cup {"_"}

\* 'a' ... 'z' | 'A' ... 'Z' | '_' | '0' ... '9'
IsIdentifierPart(c) == IsIdentifierStart(c) \/ c \in AsciiDigit

\* Decimal value of an ASCII digit.
DigitValue(c) ==
    CASE c = "0" -> 0 [] c = "1" -> 1 [] c = "2" -> 2 [] c = "3" -> 3
      [] c = "4" -> 4 [] c = "5" -> 5 [] c = "6" -> 6 [] c = "7" -> 7
      [] c = "8" -> 8 [] c = "9" -> 9

\* Largest i32.
I32Max == 2147483647

\* Byte offset of the character after the first n characters of src.
RECURSIVE ByteOffset(_, _)
ByteOffset(src, n) ==
    IF n = 0 THEN 0 ELSE ByteOffset(src, n - 1) + len_utf8(src[n])

\* expr.len()
ByteLen(src) == ByteOffset(src, Len(src))

(***************************************************************************)
(* lexer.rs: tokens.                                                       *)
(***************************************************************************)
Tok(name) == [type |-> name]
TokIdentifier(s) == [type |-> "Identifier", value |-> s]
TokQuotedIdentifier(s) == [type |-> "QuotedIdentifier", value |-> s]
TokNumber(n) == [type |-> "Number", value |-> n]
TokLiteral(j) == [type |-> "Literal", json |-> j]
\* msg is the sequence of the pieces the message is formatted from.
TokError(v, m) == [type |-> "Error", value |-> v, msg |-> m]

(***************************************************************************)
(* rustc_serialize::json::Json::from_str, on the texts the lexer hands it: *)
(* one JSON value with optional whitespace around it.                      *)
(***************************************************************************)
JsonErr == [ok |-> FALSE]
JsonOk(v, p) == [ok |-> TRUE, v |-> v, p |-> p]

\* First index >= p of s that holds no JSON whitespace.
RECURSIVE JsonSkipWs(_, _)
JsonSkipWs(s, p) ==
    IF p <= Len(s) /\ IsWhitespace(s[p]) THEN JsonSkipWs(s, p + 1) ELSE p

\* First index >= p of s that holds no ASCII digit.
RECURSIVE JsonDigitsEnd(_, _)
JsonDigitsEnd(s, p) ==
    IF p <= Len(s) /\ is_digit(s[p]) THEN JsonDigitsEnd(s, p + 1) ELSE p

\* Decimal value of the digits s[p..q-1].
RECURSIVE DecimalValue(_, _, _)
DecimalValue(s, p, q) ==
    IF q <= p THEN 0 ELSE DecimalValue(s, p, q - 1) * 10 + DigitValue(s[q - 1])

RECURSIVE Pow10(_)
Pow10(n) == IF n = 0 THEN 1 ELSE 10 * Pow10(n - 1)

\* The character an escape letter stands for; "" when it is no escape.
JsonEscape(c) ==
    CASE c = "\"" -> "\""
      [] c = "\\" -> "\\"
      [] c = "/" -> "/"
      [] c = "b" -> "U+0008"
      [] c = "f" -> "U+000C"
      [] c = "n" -> "\n"
      [] c = "r" -> "\r"
      [] c = "t" -> "\t"
      [] OTHER -> ""

\* A string body: p is the index after the opening quote.  \u escapes are
\* reported as errors: no source of the model holds one.
RECURSIVE JsonString(_, _, _)
JsonString(s, p, acc) ==
    IF p > Len(s) THEN JsonErr
    ELSE IF s[p] = "\"" THEN JsonOk(acc, p + 1)
    ELSE IF s[p] = "\\" THEN
        IF p + 1 > Len(s) \/ JsonEscape(s[p + 1]) = "" THEN JsonErr
        ELSE JsonString(s, p + 2, Append(acc, JsonEscape(s[p + 1])))
    ELSE JsonString(s, p + 1, Append(acc, s[p]))

\* A number: -? (0 | [1-9][0-9]*) (. [0-9]+)?  An integer is an I64 when
\* negative and a U64 otherwise; with a fraction it is an F64.  Exponents
\* are reported as errors: no source of the model holds one.
JsonNumber(s, p) ==
    LET neg == p <= Len(s) /\ s[p] = "-"
        i == IF neg THEN p + 1 ELSE p
        e == JsonDigitsEnd(s, i)
        int == DecimalValue(s, i, e)
        sign == IF neg THEN -1 ELSE 1
    IN  IF e = i THEN JsonErr
        ELSE IF s[i] = "0" /\ e > i + 1 THEN JsonErr
        ELSE IF e <= Len(s) /\ s[e] = "." THEN
            LET f == JsonDigitsEnd(s, e + 1)
                scale == Pow10(f - (e + 1))
            IN  IF f = e + 1 THEN JsonErr
                ELSE JsonOk(Num("F64", sign * (int * scale
                                + DecimalValue(s, e + 1, f)), scale), f)
        ELSE IF e <= Len(s) /\ s[e] \in {"e", "E"} THEN JsonErr
        ELSE JsonOk(Num(IF neg THEN "I64" ELSE "U64", sign * int, 1), e)

\* s[p..p+Len(w)-1] = w
JsonWord(s, p, w) ==
    /\ p + Len(w) - 1 <= Len(s)
    /\ \A i \in 1..Len(w) : s[p + i - 1] = w[i]

\* One value starting at index p (whitespace already skipped).  In mode
\* "elems" and "pairs" the operator parses the rest of an array or object
\* whose members so far are acc.
RECURSIVE JsonValue(_, _, _, _)
JsonValue(s, p, mode, acc) ==
    CASE mode = "value" ->
            IF p > Len(s) THEN JsonErr
            ELSE IF JsonWord(s, p, <<"n", "u", "l", "l">>) THEN JsonOk(Null, p + 4)
            ELSE IF JsonWord(s, p, <<"t", "r", "u", "e">>)
                THEN JsonOk(Bool(TRUE), p + 4)
            ELSE IF JsonWord(s, p, <<"f", "a", "l", "s", "e">>)
                THEN JsonOk(Bool(FALSE), p + 5)
            ELSE IF s[p] = "-" \/ is_digit(s[p]) THEN JsonNumber(s, p)
            ELSE IF s[p] = "\"" THEN
                LET r == JsonString(s, p + 1, <<>>)
                IN  IF r.ok THEN JsonOk(Str(r.v), r.p) ELSE JsonErr
            ELSE IF s[p] = "[" THEN
                LET q == JsonSkipWs(s, p + 1)
                IN  IF q <= Len(s) /\ s[q] = "]" THEN JsonOk(Arr(<<>>), q + 1)
                    ELSE JsonValue(s, q, "elems", <<>>)
            ELSE IF s[p] = "{" THEN
                LET q == JsonSkipWs(s, p + 1)
                IN  IF q <= Len(s) /\ s[q] = "}" THEN JsonOk(Obj(<<>>), q + 1)
                    ELSE JsonValue(s, q, "pairs", <<>>)
            ELSE JsonErr
      [] mode = "elems" ->
            LET r == JsonValue(s, p, "value", <<>>)
                q == IF r.ok THEN JsonSkipWs(s, r.p) ELSE 0
            IN  IF ~r.ok \/ q > Len(s) THEN JsonErr
                ELSE IF s[q] = "]" THEN JsonOk(Arr(Append(acc, r.v)), q + 1)
                ELSE IF s[q] = ","
                    THEN JsonValue(s, JsonSkipWs(s, q + 1), "elems",
                                   Append(acc, r.v))
                ELSE JsonErr
      [] mode = "pairs" ->
            LET key == IF p <= Len(s) /\ s[p] = "\""
                       THEN JsonString(s, p + 1, <<>>) ELSE JsonErr
                c == IF key.ok THEN JsonSkipWs(s, key.p) ELSE 0
                r == IF key.ok /\ c <= Len(s) /\ s[c] = ":"
                     THEN JsonValue(s, JsonSkipWs(s, c + 1), "value", <<>>)
                     ELSE JsonErr
                q == IF r.ok THEN JsonSkipWs(s, r.p) ELSE 0
                o == IF r.ok THEN (key.v :> r.v) @@ acc ELSE acc
            IN  IF ~r.ok \/ q > Len(s) THEN JsonErr
                ELSE IF s[q] = "}" THEN JsonOk(Obj(o), q + 1)
                ELSE IF s[q] = ","
                    THEN JsonValue(s, JsonSkipWs(s, q + 1), "pairs", o)
                ELSE JsonErr

\* Json::from_str(s): Ok(value), or Err when s is not exactly one value.
JsonFromStr(s) ==
    LET r == JsonValue(s, JsonSkipWs(s, 1), "value", <<>>)
    IN  IF r.ok /\ JsonSkipWs(s, r.p) > Len(s) THEN [ok |-> TRUE, v |-> r.v]
        ELSE JsonErr

(***************************************************************************)
(* lexer.rs: the Lexer.  The peekable character iterator is the source     *)
(* and the number it of characters already taken from it.                  *)
(***************************************************************************)
\* self.iter.peek() is None
AtEnd(src, it) == it >= Len(src)

\* The character self.iter.peek() shows (when not at the end).
Peek(src, it) == src[it + 1]

\* A consume_* result: the token and the iterator after it, or a panic.
Lexed(tok, it) == [panic |-> FALSE, tok |-> tok, iter |-> it]
Panic == [panic |-> TRUE]

\* The characters of src.
Chars(src) == {src[i] : i \in 1..Len(src)}

\* consume_while: the first character is taken whatever it is, then every
\* character the predicate holds of; predicate is the set of the characters
\* it holds of.  The result is the iterator afterwards.
consume_while(src, it, predicate) ==
    CHOOSE j \in (it + 1)..Len(src) :
        /\ \A i \in (it + 2)..j : src[i] \in predicate
        /\ j = Len(src) \/ src[j + 1] \notin predicate

\* The digit loop of lexeme.parse::<i32>(): acc is the value of the first
\* i - 1 characters; a character that is no ASCII digit, and a checked
\* multiplication or addition that would pass the largest i32, end it in Err.
RECURSIVE ParseI32From(_, _, _)
ParseI32From(lexeme, i, acc) ==
    IF i > Len(lexeme) THEN [ok |-> TRUE, v |-> acc]
    ELSE IF ~is_digit(lexeme[i]) THEN [ok |-> FALSE]
    ELSE IF acc > (I32Max - DigitValue(lexeme[i])) \div 10 THEN [ok |-> FALSE]
    ELSE ParseI32From(lexeme, i + 1, acc * 10 + DigitValue(lexeme[i]))

\* lexeme.parse::<i32>() on a lexeme that is not empty and holds no sign.
ParseI32(lexeme) == ParseI32From(lexeme, 1, 0)

\* consume_lbracket, called with the "[" already taken.
consume_lbracket(src, it) ==
    IF ~AtEnd(src, it) /\ Peek(src, it) = "]" THEN Lexed(Tok("Flatten"), it + 1)
    ELSE IF ~AtEnd(src, it) /\ Peek(src, it) = "?"
        THEN Lexed(Tok("Filter"), it + 1)
    ELSE Lexed(Tok("Lbracket"), it)

consume_identifier(src, it) ==
    LET e == consume_while(src, it, {c \in Chars(src) : IsIdentifierPart(c)})
    IN  Lexed(TokIdentifier(SubSeq(src, it + 1, e)), e)

consume_number(src, it, is_negative) ==
    LET e == consume_while(src, it, {c \in Chars(src) : is_digit(c)})
        numeric_value == ParseI32(SubSeq(src, it + 1, e))
    IN  IF ~numeric_value.ok THEN Panic
        ELSE IF is_negative THEN Lexed(TokNumber(numeric_value.v * (-1)), e)
        ELSE Lexed(TokNumber(numeric_value.v), e)

NegativeSignMsg == <<"Negative sign must be followed by numbers 1-9">>

\* consume_negative_number, called with the iterator at the "-".
consume_negative_number(src, it) ==
    IF ~AtEnd(src, it + 1) /\ is_numeric(Peek(src, it + 1))
       /\ Peek(src, it + 1) # "0"
    THEN consume_number(src, it + 1, TRUE)
    ELSE Lexed(TokError(<<"-">>, NegativeSignMsg), it + 1)

\* A bug the loop could have: a backslash is kept as any other character and
\* the delimiter after it closes the span.
RECURSIVE InsideLoopNoEscape(_, _, _, _)
InsideLoopNoEscape(src, it, buf, wrapper) ==
    IF AtEnd(src, it) THEN [closed |-> FALSE, buffer |-> buf, iter |-> it]
    ELSE IF Peek(src, it) = wrapper
        THEN [closed |-> TRUE, buffer |-> buf, iter |-> it + 1]
    ELSE InsideLoopNoEscape(src, it + 1, Append(buf, Peek(src, it)), wrapper)

\* The loop of consume_inside from iterator position it with buffer buf:
\* whether the wrapper closed the span, the buffer and the iterator.
RECURSIVE InsideLoop(_, _, _, _)
InsideLoop(src, it, buf, wrapper) ==
    IF AtEnd(src, it) THEN [closed |-> FALSE, buffer |-> buf, iter |-> it]
    ELSE IF Peek(src, it) = wrapper
        THEN [closed |-> TRUE, buffer |-> buf, iter |-> it + 1]
    ELSE IF Peek(src, it) = "\\" THEN
        IF AtEnd(src, it + 1)
        THEN [closed |-> FALSE, buffer |-> Append(buf, "\\"), iter |-> it + 1]
        ELSE InsideLoop(src, it + 2,
                        Append(Append(buf, "\\"), Peek(src, it + 1)), wrapper)
    ELSE InsideLoop(src, it + 1, Append(buf, Peek(src, it)), wrapper)

\* The closure of consume_quoted_identifier.
QuotedIdentifierOf(buf) ==
    LET j == JsonFromStr(<<"\"">> \o buf \o <<"\"">>)
    IN  IF j.ok THEN TokQuotedIdentifier(j.v.s)
        ELSE TokError(<<"\"">> \o buf \o <<"\"">>,
                      <<"Unable to parse JSON value in quoted identifier: ">>)

\* The closure of consume_raw_string.
RawStringOf(buf) == TokLiteral(Str(buf))

\* The closure of consume_literal.
LiteralOf(buf) ==
    LET j == JsonFromStr(buf)
    IN  IF j.ok THEN TokLiteral(j.v)
        ELSE TokError(<<Backtick>> \o buf \o <<Backtick>>,
                      <<"Unable to parse literal JSON: ">>)

\* A bug consume_inside could have: the error of an unclosed span holds the
\* buffer without the wrapper that opened it.
consume_inside_buffer_only(src, it, wrapper, invoke) ==
    LET r == InsideLoop(src, it + 1, <<>>, wrapper)
        token == CASE invoke = "quoted_identifier" -> QuotedIdentifierOf(r.buffer)
                   [] invoke = "raw_string" -> RawStringOf(r.buffer)
                   [] invoke = "literal" -> LiteralOf(r.buffer)
    IN  IF r.closed THEN Lexed(token, r.iter)
        ELSE Lexed(TokError(r.buffer, <<"Unclosed ", wrapper, " delimiter">>),
                   r.iter)

\* consume_inside, called with the iterator at the opening wrapper; invoke
\* names the closure the caller passes.
consume_inside(src, it, wrapper, invoke) ==
    LET r == InsideLoop(src, it + 1, <<>>, wrapper)
        token == CASE invoke = "quoted_identifier" -> QuotedIdentifierOf(r.buffer)
                   [] invoke = "raw_string" -> RawStringOf(r.buffer)
                   [] invoke = "literal" -> LiteralOf(r.buffer)
    IN  IF r.closed THEN Lexed(token, r.iter)
        ELSE Lexed(TokError(<<wrapper>> \o r.buffer,
                            <<"Unclosed ", wrapper, " delimiter">>), r.iter)

consume_quoted_identifier(src, it) ==
    consume_inside(src, it, "\"", "quoted_identifier")

consume_raw_string(src, it) == consume_inside(src, it, "'", "raw_string")

consume_literal(src, it) == consume_inside(src, it, Backtick, "literal")

\* A bug alt could have: the expected character is matched and left in the
\* input.
alt_without_next(src, it, expected, match_type, else_type) ==
    IF ~AtEnd(src, it) /\ Peek(src, it) = expected
    THEN Lexed(match_type, it)
    ELSE Lexed(else_type, it)

\* alt, called with the first character already taken.
alt(src, it, expected, match_type, else_type) ==
    IF ~AtEnd(src, it) /\ Peek(src, it) = expected
    THEN Lexed(match_type, it + 1)
    ELSE Lexed(else_type, it)

\* The tokens of one character that tok! yields directly.
SimpleToken(ch) ==
    CASE ch = "." -> Tok("Dot")
      [] ch = "*" -> Tok("Star")
      [] ch = "@" -> Tok("At")
      [] ch = "]" -> Tok("Rbracket")
      [] ch = "{" -> Tok("Lbrace")
      [] ch = "}" -> Tok("Rbrace")
      [] ch = "&" -> Tok("Ampersand")
      [] ch = "(" -> Tok("Lparen")
      [] ch = ")" -> Tok("Rparen")
      [] ch = "," -> Tok("Comma")
      [] ch = ":" -> Tok("Colon")

IsSimple(ch) ==
    ch \in {".", "*", "@", "]", "{", "}", "&", "(", ")", ",", ":"}

\* The iterator after the whitespace arm of next() has skipped what it can.
RECURSIVE SkipWhitespace(_, _)
SkipWhitespace(src, it) ==
    IF ~AtEnd(src, it) /\ IsWhitespace(Peek(src, it))
    THEN SkipWhitespace(src, it + 1) ELSE it

\* The match on the character ch at iterator position it of next().
Dispatch(src, it, ch) ==
    CASE ch = "[" -> consume_lbracket(src, it + 1)
      [] IsSimple(ch) -> Lexed(SimpleToken(ch), it + 1)
      [] ch = "|" -> alt(src, it + 1, "|", Tok("Or"), Tok("Pipe"))
      [] IsIdentifierStart(ch) -> consume_identifier(src, it)
      [] ch = "\"" -> consume_quoted_identifier(src, it)
      [] ch = "'" -> consume_raw_string(src, it)
      [] ch = Backtick -> consume_literal(src, it)
      [] ch = ">" -> alt(src, it + 1, "=", Tok("Gte"), Tok("Gt"))
      [] ch = "<" -> alt(src, it + 1, "=", Tok("Lte"), Tok("Lt"))
      [] ch = "!" -> alt(src, it + 1, "=", Tok("Ne"), Tok("Not"))
      [] ch = "=" -> alt(src, it + 1, "=", Tok("Eq"),
                         TokError(<<"=">>, <<"Did you mean \"==\"?">>))
      [] ch = "-" -> consume_negative_number(src, it)
      [] is_digit(ch) -> consume_number(src, it, FALSE)
      [] OTHER -> Lexed(TokError(<<ch>>, <<"">>), it + 1)

\* Lexer::new
LexerNew(expr) ==
    [iter |-> 0, sent_eof |-> FALSE, last_position |-> ByteLen(expr)]

\* return Some((pos, token)) with the token r of a match arm, unless the
\* arm panicked.
ReturnSome(pos, r, sent) ==
    IF r.panic THEN [ret |-> "panic"]
    ELSE [ret |-> "Some", pos |-> pos, tok |-> r.tok, iter |-> r.iter,
          sent_eof |-> sent]

\* Iterator::next for Lexer: what the call returns and the lexer after it.
LexerNext(src, it, sent, last) ==
    LET p == SkipWhitespace(src, it) IN
    IF AtEnd(src, p) THEN
        IF sent THEN [ret |-> "None", iter |-> p, sent_eof |-> sent]
        ELSE [ret |-> "Some", pos |-> last, tok |-> Tok("Eof"),
              iter |-> p, sent_eof |-> TRUE]
    ELSE ReturnSome(ByteOffset(src, p), Dispatch(src, p, Peek(src, p)), sent)

\* tokenize(expr).collect(): next() called until it returns None or panics.
\* acc holds the tokens yielded so far and the iterator after each of them;
\* r is what the call just made returned.
RECURSIVE CollectFrom(_, _, _, _)
Collect(src, r, acc) ==
    IF r.ret = "Some"
    THEN CollectFrom(src, r.iter, r.sent_eof,
                     [acc EXCEPT !.tokens = Append(@, r.tok),
                                 !.ends = Append(@, r.iter)])
    ELSE IF r.ret = "None" THEN acc
    ELSE [acc EXCEPT !.panic = TRUE]

CollectFrom(src, it, sent, acc) ==
    Collect(src, LexerNext(src, it, sent, ByteLen(src)), acc)

(***************************************************************************)
(* The lexer: the state machine.                                           *)
(***************************************************************************)
\* The characters the sources are written in.
Sigma ==
    { " ", "[", "]", "?", ".", "|", "a", "0", "1", "9", "-", "=", "<", ">",
      "!", "\"", "'", Backtick, "\\", "~", ArabicThree }

\* Every sequence over S of length at most n.
SeqsUpTo(S, n) == UNION { [1..m -> S] : m \in 0..n }

Nines(n) == [i \in 1..n |-> "9"]

\* The characters that open and close a span: quoted identifier, raw string
\* and JSON literal.
Delimiters == {"\"", "'", Backtick}

\* An opening delimiter and up to MaxLen + 1 characters of those that decide
\* where the span ends.
Spans ==
    { <<w>> \o s : w \in Delimiters,
                   s \in SeqsUpTo({"\"", "'", "\\", "a"}, MaxLen + 1) }

\* Every short source, the longer spans, the runs of nines with and without
\* a sign, and the numbers around the largest i32.
Sources ==
    SeqsUpTo(Sigma, MaxLen)
    \cup Spans
    \cup { Nines(n) : n \in 1..MaxRun }
    \cup { <<"-">> \o Nines(n) : n \in 1..MaxRun }
    \cup { <<"2", "1", "4", "7", "4", "8", "3", "6", "4", "7">>,
           <<"2", "1", "4", "7", "4", "8", "3", "6", "4", "8">>,
           <<"-", "2", "1", "4", "7", "4", "8", "3", "6", "4", "7">>,
           <<"-", "2", "1", "4", "7", "4", "8", "3", "6", "4", "8">> }

CompilerIdle ==
    /\ ast = CurrentNode /\ input = Null /\ cstate = "new"
    /\ opcodes = <<>> /\ pc = 0 /\ stack = <<>>

\* tokenize(expr)
LexerInit ==
    /\ source \in Sources
    /\ iter = LexerNew(source).iter
    /\ sent_eof = LexerNew(source).sent_eof
    /\ last_position = LexerNew(source).last_position
    /\ yielded = <<>>
    /\ lstate = "lexing"

\* One call of next(): it yields a token, returns None, or panics.  After
\* None the caller may call again.
LexNext ==
    /\ lstate \in {"lexing", "finished"}
    /\ \E r \in {LexerNext(source, iter, sent_eof, last_position)} :
        CASE r.ret = "Some" ->
                /\ yielded' = Append(yielded, <<r.pos, r.tok>>)
                /\ iter' = r.iter
                /\ sent_eof' = r.sent_eof
                /\ lstate' = "lexing"
          [] r.ret = "None" ->
                /\ lstate' = "finished"
                /\ iter' = r.iter
                /\ UNCHANGED <<yielded, sent_eof>>
          [] r.ret = "panic" ->
                /\ lstate' = "panicked"
                /\ UNCHANGED <<yielded, iter, sent_eof>>
    /\ UNCHANGED <<source, last_position, cvars, fvars>>

InitLexer == LexerInit /\ CompilerIdle /\ FunctionsIdle
SpecLexer == InitLexer /\ [][LexNext]_vars

(***************************************************************************)
(* Properties of the lexer.                                                *)
(***************************************************************************)
\* Offsets of the yielded tokens never decrease.
OffsetsMonotone ==
    \A i \in 1..(Len(yielded) - 1) : yielded[i][1] <= yielded[i + 1][1]

\* Eof is yielded at most once, as the last token so far, at the byte
\* length of the source.
EofOnlyLast ==
    \A i \in 1..Len(yielded) :
        yielded[i][2] = Tok("Eof") =>
            i = Len(yielded) /\ yielded[i][1] = ByteLen(source)

\* next() returns None only after Eof was yielded.
NoneOnlyAfterEof ==
    lstate = "finished" =>
        Len(yielded) > 0 /\ yielded[Len(yielded)][2] = Tok("Eof")

\* What C6 says of the tokens that are yielded, leaving aside whether the
\* calls return at all.
LexerStreamSafety == OffsetsMonotone /\ EofOnlyLast /\ NoneOnlyAfterEof

\* C6: over any sequence of next() calls the offsets of the yielded tokens
\* are non-decreasing, Eof is yielded exactly once (no call aborts before
\* it), Eof is the last token and carries the byte length of the source, and
\* every call after Eof returns None.
C6_EofExactlyOnceAndLast ==
    /\ LexerStreamSafety
    /\ lstate # "panicked"

\* The position of the character the next token starts with.
TokenStart == SkipWhitespace(source, iter)

\* The next token starts with ch.
TokenStartsWith(ch) ==
    /\ lstate = "lexing"
    /\ ~AtEnd(source, TokenStart)
    /\ Peek(source, TokenStart) = ch

\* The character after the one the next token starts with is one of S.
FollowedBy(S) ==
    /\ ~AtEnd(source, TokenStart + 1)
    /\ Peek(source, TokenStart + 1) \in S

\* The call returned with a new token.
Yielded == lstate' = "lexing" /\ Len(yielded') = Len(yielded) + 1

LastYielded == yielded'[Len(yielded')]

\* C7: a "-" that is not followed by one of the ASCII digits 1-9 (it is
\* followed by 0, by any other character, or by the end of the input) is
\* yielded as Error{"-", "Negative sign must be followed by numbers 1-9"}
\* at the offset of the "-"; a "-" yields a Number only when followed by
\* one of the digits 1-9.
C7_NegativeSignNeedsDigit ==
    [][ LexNext /\ TokenStartsWith("-") /\ ~FollowedBy(AsciiDigit \ {"0"}) =>
            /\ Yielded
            /\ LastYielded = <<ByteOffset(source, TokenStart),
                               TokError(<<"-">>, NegativeSignMsg)>> ]_vars

\* The end of the run of ASCII digits that starts at position p.
RunEnd(p) == JsonDigitsEnd(source, p + 1) - 1

\* C8: a run of ASCII digits where a token starts is yielded as one token
\* Number(n), n the decimal value of the whole run, and a "-" followed by
\* a run that starts with 1-9 as Number(-n); next() returns a token for
\* every such run, also when its value is above 2^31 - 1.
C8_DigitRunIsOneNumber ==
    [][ /\ LexNext /\ lstate = "lexing" /\ ~AtEnd(source, TokenStart)
        /\ \/ is_digit(Peek(source, TokenStart))
           \/ TokenStartsWith("-") /\ FollowedBy(AsciiDigit \ {"0"})
        => LET neg == Peek(source, TokenStart) = "-"
               b == IF neg THEN TokenStart + 1 ELSE TokenStart
               n == ParseI32(SubSeq(source, b + 1, RunEnd(b)))
           IN  /\ Yielded
               /\ LastYielded[1] = ByteOffset(source, TokenStart)
               /\ LastYielded[2].type = "Number"
               /\ n.ok => LastYielded[2].value = (IF neg THEN -n.v ELSE n.v)
               /\ iter' = RunEnd(b) ]_vars

(***************************************************************************)
(* functions.rs: argument types and their validation.                      *)
(***************************************************************************)
TAny == [t |-> "Any"]
TString == [t |-> "String"]
TNumber == [t |-> "Number"]
TBool == [t |-> "Bool"]
TArray == [t |-> "Array"]
TObject == [t |-> "Object"]
TNull == [t |-> "Null"]
TExpref == [t |-> "Expref"]
THomogeneousArray(types) == [t |-> "HomogeneousArray", types |-> types]
TOneOf(types) == [t |-> "OneOf", types |-> types]
TExprefReturns(types) == [t |-> "ExprefReturns", types |-> types]

\* A bug is_valid could have: the elements of a HomogeneousArray are checked
\* against the listed types only, not against the kind of the first element.
RECURSIVE is_valid_mixed(_, _)
is_valid_mixed(type, value) ==
    CASE type.t = "Any" -> TRUE
      [] type.t = "Null" -> value.k = "null"
      [] type.t = "String" -> value.k = "string"
      [] type.t = "Number" -> value.k = "number"
      [] type.t = "Object" -> value.k = "object"
      [] type.t = "Bool" -> value.k = "boolean"
      [] type.t = "Expref" -> value.k = "expref"
      [] type.t = "ExprefReturns" -> value.k = "expref"
      [] type.t = "Array" -> value.k = "array"
      [] type.t = "OneOf" ->
            \E i \in 1..Len(type.types) : is_valid_mixed(type.types[i], value)
      [] type.t = "HomogeneousArray" ->
            /\ value.k = "array"
            /\ \A i \in 1..Len(value.a) :
                  is_valid_mixed(TOneOf(type.types), value.a[i])

\* ArgumentType::is_valid
RECURSIVE is_valid(_, _)
is_valid(type, value) ==
    CASE type.t = "Any" -> TRUE
      [] type.t = "Null" -> value.k = "null"
      [] type.t = "String" -> value.k = "string"
      [] type.t = "Number" -> value.k = "number"
      [] type.t = "Object" -> value.k = "object"
      [] type.t = "Bool" -> value.k = "boolean"
      [] type.t = "Expref" -> value.k = "expref"
      [] type.t = "ExprefReturns" -> value.k = "expref"
      [] type.t = "Array" -> value.k = "array"
      [] type.t = "OneOf" ->
            \E i \in 1..Len(type.types) : is_valid(type.types[i], value)
      [] type.t = "HomogeneousArray" ->
            /\ value.k = "array"
            /\ \/ Len(value.a) = 0
               \/ LET alts == TOneOf(type.types)
                      first_type == get_type(value.a[1])
                  IN  \A i \in 1..Len(value.a) :
                          /\ is_valid(alts, value.a[i])
                          /\ get_type(value.a[i]) = first_type

\* impl Display for ArgumentType: the pieces the text is made of.
RECURSIVE TypeString(_)
TypeString(type) ==
    LET Joined(types, prefix) ==
            [i \in 1..Len(types) |-> <<prefix, TypeString(types[i])>>]
    IN  CASE type.t = "Any" -> <<"any">>
          [] type.t = "String" -> <<"string">>
          [] type.t = "Number" -> <<"number">>
          [] type.t = "Bool" -> <<"boolean">>
          [] type.t = "Array" -> <<"array">>
          [] type.t = "Object" -> <<"object">>
          [] type.t = "Null" -> <<"null">>
          [] type.t = "Expref" -> <<"expref">>
          [] type.t = "ExprefReturns" -> <<"|", Joined(type.types, "expref->")>>
          [] type.t = "OneOf" -> <<"|", Joined(type.types, "")>>
          [] type.t = "HomogeneousArray" ->
                <<"array[", <<"|", Joined(type.types, "")>>, "]">>

\* Results: Ok(value) and Err(error), each with the elements the
\* interpreter was applied to on the way, in order.
Ok(v, calls) == [ok |-> TRUE, val |-> v, calls |-> calls]
Err(e, calls) == [ok |-> FALSE, err |-> e, calls |-> calls]

NotEnoughArguments(expected, actual) ==
    [type |-> "NotEnoughArguments", expected |-> expected, actual |-> actual]
TooManyArguments(expected, actual) ==
    [type |-> "TooManyArguments", expected |-> expected, actual |-> actual]
InvalidType(expected, actual, actual_value, position) ==
    [type |-> "InvalidType", expected |-> expected, actual |-> actual,
     actual_value |-> actual_value, position |-> position]
InvalidReturnType(expected, actual, actual_value, position, invocation) ==
    [type |-> "InvalidReturnType", expected |-> expected, actual |-> actual,
     actual_value |-> actual_value, position |-> position,
     invocation |-> invocation]

Valid == [ok |-> TRUE]
Invalid(e) == [ok |-> FALSE, err |-> e]

validate_arity(expected, actual) ==
    IF actual = expected THEN Valid
    ELSE IF actual < expected
        THEN Invalid(NotEnoughArguments(expected, actual))
    ELSE Invalid(TooManyArguments(expected, actual))

validate_min_arity(expected, actual) ==
    IF actual < expected THEN Invalid(NotEnoughArguments(expected, actual))
    ELSE Valid

\* The for loop of validate_args!: the first argument its validator rejects.
\* validators[k + 1] is the validator of the argument at 0-based index k.
FirstInvalid(args, validators) ==
    LET bad == {k \in 0..(Len(args) - 1) : ~is_valid(validators[k + 1], args[k + 1])}
    IN  IF bad = {} THEN Valid
        ELSE LET k == CHOOSE m \in bad : \A n \in bad : m <= n
             IN  Invalid(InvalidType(TypeString(validators[k + 1]),
                                     get_type(args[k + 1]), args[k + 1], k))

\* A signature: the positional validators and, in variadic, none or one
\* validator for the arguments after them.
Signature(positional, variadic) ==
    [positional |-> positional, variadic |-> variadic]

\* A bug validate_args! could have: the argument kinds are checked before
\* the argument count.
validate_args_types_first(args, sig) ==
    LET validators ==
            [i \in 1..Len(args) |->
                IF i <= Len(sig.positional) THEN sig.positional[i]
                ELSE IF Len(sig.variadic) > 0 THEN sig.variadic[1]
                ELSE TAny]
        types == FirstInvalid(args, validators)
        arity == IF Len(sig.variadic) = 0
                 THEN validate_arity(Len(sig.positional), Len(args))
                 ELSE validate_min_arity(Len(sig.positional), Len(args))
    IN  IF ~types.ok THEN types ELSE arity

\* validate_args!, both forms: the arity, then each argument in order.
validate_args(args, sig) ==
    IF Len(sig.variadic) = 0 THEN
        LET arity == validate_arity(Len(sig.positional), Len(args))
            validators == [i \in 1..Len(args) |-> sig.positional[i]]
        IN  IF ~arity.ok THEN arity ELSE FirstInvalid(args, validators)
    ELSE
        LET arity == validate_min_arity(Len(sig.positional), Len(args))
            validators ==
                [i \in 1..Len(args) |->
                    IF i <= Len(sig.positional) THEN sig.positional[i]
                    ELSE sig.variadic[1]]
        IN  IF ~arity.ok THEN arity ELSE FirstInvalid(args, validators)

\* The names register_core_functions registers.
Functions ==
    { "abs", "avg", "ceil", "contains", "ends_with", "floor", "join", "keys",
      "length", "map", "min", "max", "max_by", "min_by", "merge", "not_null",
      "reverse", "sort", "sort_by", "starts_with", "sum", "to_array",
      "to_number", "to_string", "type", "values" }

\* The validate_args! line of each function.
SignatureOf(name) ==
    CASE name = "abs" -> Signature(<<TNumber>>, <<>>)
      [] name = "avg" -> Signature(<<THomogeneousArray(<<TNumber>>)>>, <<>>)
      [] name = "ceil" -> Signature(<<TNumber>>, <<>>)
      [] name = "contains" ->
            Signature(<<TOneOf(<<TString, TArray>>), TAny>>, <<>>)
      [] name = "ends_with" -> Signature(<<TString, TString>>, <<>>)
      [] name = "floor" -> Signature(<<TNumber>>, <<>>)
      [] name = "join" ->
            Signature(<<TString, THomogeneousArray(<<TString>>)>>, <<>>)
      [] name = "keys" -> Signature(<<TObject>>, <<>>)
      [] name = "length" ->
            Signature(<<TOneOf(<<TArray, TObject, TString>>)>>, <<>>)
      [] name = "map" -> Signature(<<TExpref, TArray>>, <<>>)
      [] name \in {"min", "max"} ->
            Signature(<<THomogeneousArray(<<TString, TNumber>>)>>, <<>>)
      [] name \in {"max_by", "min_by"} -> Signature(<<TArray, TExpref>>, <<>>)
      [] name = "merge" -> Signature(<<TObject>>, <<TObject>>)
      [] name = "not_null" -> Signature(<<TAny>>, <<TAny>>)
      [] name = "reverse" -> Signature(<<TOneOf(<<TArray, TString>>)>>, <<>>)
      [] name = "sort" ->
            Signature(<<THomogeneousArray(<<TString, TNumber>>)>>, <<>>)
      [] name = "sort_by" -> Signature(<<TArray, TExpref>>, <<>>)
      [] name = "starts_with" -> Signature(<<TString, TString>>, <<>>)
      [] name = "sum" -> Signature(<<THomogeneousArray(<<TNumber>>)>>, <<>>)
      [] name = "to_array" -> Signature(<<TAny>>, <<>>)
      [] name = "to_number" -> Signature(<<TAny>>, <<>>)
      [] name = "to_string" ->
            Signature(<<TOneOf(<<TObject, TArray, TBool, TNumber, TString,
                                 TNull>>)>>, <<>>)
      [] name = "type" -> Signature(<<TAny>>, <<>>)
      [] name = "values" -> Signature(<<TObject>>, <<>>)

(***************************************************************************)
(* functions.rs: what the functions compute with.  The order and the       *)
(* arithmetic of values belong to the value type (design document,         *)
(* section 3): numbers compare by value, strings character by character.   *)
(***************************************************************************)
\* The printable ASCII characters in code order, from U+0020.
AsciiTable ==
    << " ", "!", "\"", "#", "$", "%", "&", "'", "(", ")",
       "*", "+", ",", "-", ".", "/", "0", "1", "2", "3",
       "4", "5", "6", "7", "8", "9", ":", ";", "<", "=",
       ">", "?", "@", "A", "B", "C", "D", "E", "F", "G",
       "H", "I", "J", "K", "L", "M", "N", "O", "P", "Q",
       "R", "S", "T", "U", "V", "W", "X", "Y", "Z", "[",
       "\\", "]", "^", "_", Backtick, "a", "b", "c", "d", "e",
       "f", "g", "h", "i", "j", "k", "l", "m", "n", "o",
       "p", "q", "r", "s", "t", "u", "v", "w", "x", "y",
       "z", "{", "|", "}", "~" >>

\* The code point of a character.
CharCode(c) ==
    IF \E i \in 1..Len(AsciiTable) : AsciiTable[i] = c
    THEN 31 + (CHOOSE i \in 1..Len(AsciiTable) : AsciiTable[i] = c)
    ELSE CASE c = "U+0008" -> 8
           [] c = "\t" -> 9
           [] c = "\n" -> 10
           [] c = "U+000C" -> 12
           [] c = "\r" -> 13
           [] c = ArabicThree -> 1635

\* a < b for strings: at the first difference, or a a proper prefix of b.
StrLess(a, b) ==
    \E i \in 1..(Len(b)) :
        /\ \A j \in 1..(i - 1) : j <= Len(a) /\ a[j] = b[j]
        /\ \/ i = Len(a) + 1
           \/ i <= Len(a) /\ CharCode(a[i]) < CharCode(b[i])

\* a < b for values of one kind that has an order.
VarLess(a, b) ==
    CASE a.k = "number" /\ b.k = "number" -> NumLt(a, b)
      [] a.k = "string" /\ b.k = "string" -> StrLess(a.s, b.s)
      [] OTHER -> FALSE

RECURSIVE Gcd(_, _)
Gcd(a, b) == IF b = 0 THEN a ELSE Gcd(b, a % b)

AbsInt(n) == IF n < 0 THEN -n ELSE n

\* The f64 n/d: a fraction in lowest terms; n/0 is NaN (n = 0) or infinite.
F64(n, d) ==
    IF d = 0 THEN Num("F64", IF n > 0 THEN 1 ELSE IF n < 0 THEN -1 ELSE 0, 0)
    ELSE LET g == Gcd(AbsInt(n), d) IN Num("F64", n \div g, d \div g)

\* Variable::as_f64 of a number.
as_f64(v) == F64(v.num, v.den)

\* a + b and a / b on f64 values (finite operands).
F64Add(a, b) == F64(a.num * b.den + b.num * a.den, a.den * b.den)
F64Div(a, b) ==
    IF b.num = 0 THEN F64(a.num, 0)
    ELSE IF b.num < 0 THEN F64(-(a.num * b.den), a.den * (-b.num))
    ELSE F64(a.num * b.den, a.den * b.num)

\* values.iter().map(as_f64).fold(0.0, +) over the first n values.
RECURSIVE SumF64(_, _)
SumF64(values, n) ==
    IF n = 0 THEN F64(0, 1)
    ELSE F64Add(SumF64(values, n - 1), as_f64(values[n]))

\* A stable ascending sort of seq by keys, keys[i] the key of seq[i]: the
\* element at index i goes after every element of a lesser key and after
\* every earlier element whose key is not greater.
StableSort(seq, keys) ==
    LET Rank(i) ==
            Cardinality({j \in 1..Len(seq) :
                \/ VarLess(keys[j], keys[i])
                \/ ~VarLess(keys[i], keys[j]) /\ j < i}) + 1
    IN  [r \in 1..Len(seq) |-> seq[CHOOSE i \in 1..Len(seq) : Rank(i) = r]]

\* The keys of an object in BTreeMap order.
SortedKeys(o) ==
    LET ks == DOMAIN o
        Rank(key) == Cardinality({x \in ks : StrLess(x, key)}) + 1
    IN  [r \in 1..Cardinality(ks) |-> CHOOSE key \in ks : Rank(key) = r]

Reversed(seq) == [i \in 1..Len(seq) |-> seq[Len(seq) + 1 - i]]

\* pat occurs in s at index i.
OccursAt(s, pat, i) ==
    /\ i + Len(pat) - 1 <= Len(s)
    /\ \A j \in 1..Len(pat) : s[i + j - 1] = pat[j]

\* The characters of a type name.
TypeName(k) ==
    CASE k = "null" -> <<"n", "u", "l", "l">>
      [] k = "boolean" -> <<"b", "o", "o", "l", "e", "a", "n">>
      [] k = "number" -> <<"n", "u", "m", "b", "e", "r">>
      [] k = "string" -> <<"s", "t", "r", "i", "n", "g">>
      [] k = "array" -> <<"a", "r", "r", "a", "y">>
      [] k = "object" -> <<"o", "b", "j", "e", "c", "t">>
      [] k = "expref" -> <<"e", "x", "p", "r", "e", "f">>

\* intr.interpret(&value, &ast).  A Function node evaluates its arguments
\* against the value and dispatches to the function, whose error is the
\* error of the interpretation (design document 4.4 and 6); the nodes of the
\* compiler's subset never fail.
RECURSIVE Evaluate(_, _)
intr_interpret(value, a) ==
    IF a.t = "Function"
    THEN LET r == Evaluate(a.name,
                           [i \in 1..Len(a.args) |-> Interpret(a.args[i], value)])
         IN  IF r.ok THEN [ok |-> TRUE, v |-> r.val]
             ELSE [ok |-> FALSE, err |-> r.err]
    ELSE [ok |-> TRUE, v |-> Interpret(a, value)]

(***************************************************************************)
(* functions.rs: the functions.  Each body is given the arguments that     *)
(* passed validate_args! and returns Ok or Err.                            *)
(***************************************************************************)
\* i64::MIN, -2^63, written num * 2^exp: the one i64 whose negation is not an
\* i64.  Every other number of the model has no exp field.
I64Min == [k |-> "number", t |-> "I64", num |-> I32Min, den |-> 1, exp |-> 32]

\* A result computed by an arithmetic operation that overflowed: the wrapped
\* value, which a build without overflow checks returns, and the message a
\* build with overflow checks panics with.
Overflowed(v, msg) == [ok |-> TRUE, val |-> v, calls |-> <<>>, overflow |-> msg]
Overflows(r) == "overflow" \in DOMAIN r

\* i64::abs: the negation of i64::MIN overflows and wraps to i64::MIN.
I64Abs(v) ==
    IF v = I64Min THEN Overflowed(I64Min, "attempt to negate with overflow")
    ELSE Ok(Num("I64", AbsInt(v.num), v.den), <<>>)

\* Abs::evaluate
Abs(args) ==
    LET v == args[1]
    IN  IF v.t = "I64" THEN I64Abs(v)
        ELSE IF v.t = "F64" THEN Ok(Num("F64", AbsInt(v.num), v.den), <<>>)
        ELSE Ok(v, <<>>)

\* Avg::evaluate: sum / (values.len() as f64), 0.0 / 0.0 when empty.
Avg(args) ==
    LET values == args[1].a
        sum == SumF64(values, Len(values))
    IN  Ok(F64Div(sum, F64(Len(values), 1)), <<>>)

\* Ceil::evaluate
Ceil(args) ==
    LET n == as_f64(args[1])
    IN  IF n.den = 0 THEN Ok(n, <<>>)
        ELSE Ok(F64(-((-n.num) \div n.den), 1), <<>>)

\* Contains::evaluate
Contains(args) ==
    LET haystack == args[1]
        needle == args[2]
    IN  IF haystack.k = "array"
        THEN Ok(Bool(\E i \in 1..Len(haystack.a) : ValEq(haystack.a[i], needle)),
                <<>>)
        ELSE IF needle.k # "string" THEN Ok(Bool(FALSE), <<>>)
        ELSE Ok(Bool(\E i \in 1..(Len(haystack.s) + 1) :
                        OccursAt(haystack.s, needle.s, i)), <<>>)

\* EndsWith::evaluate
EndsWith(args) ==
    LET subject == args[1].s
        search == args[2].s
    IN  Ok(Bool(/\ Len(search) <= Len(subject)
                /\ OccursAt(subject, search, Len(subject) - Len(search) + 1)),
           <<>>)

\* Floor::evaluate
Floor(args) ==
    LET n == as_f64(args[1])
    IN  IF n.den = 0 THEN Ok(n, <<>>) ELSE Ok(F64(n.num \div n.den, 1), <<>>)

\* The first n strings of values with glue between them.
RECURSIVE JoinStrings(_, _, _)
JoinStrings(values, glue, n) ==
    IF n = 0 THEN <<>>
    ELSE IF n = 1 THEN values[1].s
    ELSE JoinStrings(values, glue, n - 1) \o glue \o values[n].s

\* Join::evaluate
Join(args) ==
    LET glue == args[1].s
        values == args[2].a
    IN  Ok(Str(JoinStrings(values, glue, Len(values))), <<>>)

\* Keys::evaluate
Keys(args) ==
    LET object == args[1].o
        keys == SortedKeys(object)
    IN  Ok(Arr([i \in 1..Len(keys) |-> Str(keys[i])]), <<>>)

\* Length::evaluate
Length(args) ==
    LET v == args[1]
    IN  CASE v.k = "array" -> Ok(Num("U64", Len(v.a), 1), <<>>)
          [] v.k = "object" -> Ok(Num("U64", Cardinality(DOMAIN v.o), 1), <<>>)
          [] v.k = "string" -> Ok(Num("U64", Len(v.s), 1), <<>>)

\* A bug the loop could have: an element the expression fails on is mapped
\* to null and the loop goes on.
RECURSIVE MapLoopNullOnError(_, _, _, _, _)
MapLoopNullOnError(values, a, i, results, calls) ==
    IF i > Len(values) THEN Ok(Arr(results), calls)
    ELSE LET r == intr_interpret(values[i], a)
             called == Append(calls, values[i])
         IN  MapLoopNullOnError(values, a, i + 1,
                                Append(results, IF r.ok THEN r.v ELSE Null),
                                called)

\* The for loop of Map::evaluate from the element at index i (1-based).
RECURSIVE MapLoop(_, _, _, _, _)
MapLoop(values, a, i, results, calls) ==
    IF i > Len(values) THEN Ok(Arr(results), calls)
    ELSE LET r == intr_interpret(values[i], a)
             called == Append(calls, values[i])
         IN  IF ~r.ok THEN Err(r.err, called)
             ELSE MapLoop(values, a, i + 1, Append(results, r.v), called)

\* Map::evaluate
Map(args) == MapLoop(args[2].a, args[1].ast, 1, <<>>, <<>>)

\* std::cmp::max and std::cmp::min: of two equal values, max returns the
\* second and min the first.
max(acc, item) == IF VarLess(item, acc) THEN acc ELSE item
min(acc, item) == IF VarLess(item, acc) THEN item ELSE acc

\* values.iter().skip(1).fold(values[0], operator) over the first n values.
RECURSIVE FoldBest(_, _, _)
FoldBest(values, n, operator) ==
    IF n = 1 THEN values[1]
    ELSE LET acc == FoldBest(values, n - 1, operator)
         IN  IF operator = "max" THEN max(acc, values[n])
             ELSE min(acc, values[n])

\* min_and_max!
min_and_max(operator, args) ==
    LET values == args[1].a
    IN  IF Len(values) = 0 THEN Ok(Null, <<>>)
        ELSE Ok(FoldBest(values, Len(values), operator), <<>>)

\* A bug the loop could have: an element of equal key replaces the candidate.
replaces_candidate_on_tie(operator, mapped, best) ==
    IF operator = "gt" THEN ~VarLess(mapped, best) ELSE ~VarLess(best, mapped)

\* mapped.gt(&candidate.1) of max_by, mapped.lt(&candidate.1) of min_by
replaces_candidate(operator, mapped, best) ==
    IF operator = "gt" THEN VarLess(best, mapped) ELSE VarLess(mapped, best)

\* The for loop of min_and_max_by! from the element at index i (1-based);
\* enumerate() counts from 0, so the element at i has invocation i - 1.
RECURSIVE MinMaxByLoop(_, _, _, _, _, _, _)
MinMaxByLoop(operator, vals, a, i, candidate, entered_type, calls) ==
    IF i > Len(vals) THEN Ok(candidate[1], calls)
    ELSE LET r == intr_interpret(vals[i], a)
             called == Append(calls, vals[i])
             mapped == r.v
             better == replaces_candidate(operator, mapped, candidate[2])
         IN  IF ~r.ok THEN Err(r.err, called)
             ELSE IF get_type(mapped) # entered_type
                 THEN Err(InvalidReturnType(<<"expression->", entered_type>>,
                                            get_type(mapped), mapped, 1, i - 1),
                          called)
             ELSE MinMaxByLoop(operator, vals, a, i + 1,
                               IF better THEN <<vals[i], mapped>> ELSE candidate,
                               entered_type, called)

\* min_and_max_by!
min_and_max_by(operator, args) ==
    LET vals == args[1].a
        a == args[2].ast
        r == intr_interpret(vals[1], a)
        initial == r.v
        entered_type == get_type(initial)
    IN  IF Len(vals) = 0 THEN Ok(Null, <<>>)
        ELSE IF ~r.ok THEN Err(r.err, <<vals[1]>>)
        ELSE IF entered_type # "string" /\ entered_type # "number"
            THEN Err(InvalidReturnType(
                        <<"expression->number|expression->string">>,
                        entered_type, initial, 1, 1), <<vals[1]>>)
        ELSE MinMaxByLoop(operator, vals, a, 2, <<vals[1], initial>>,
                          entered_type, <<vals[1]>>)

\* MaxBy::evaluate and MinBy::evaluate
MaxBy(args) == min_and_max_by("gt", args)
MinBy(args) == min_and_max_by("lt", args)

\* Max::evaluate and Min::evaluate
Max(args) == min_and_max("max", args)
Min(args) == min_and_max("min", args)

\* A bug the loop could have: a key keeps the value of the first object that
\* holds it.
RECURSIVE MergeLoopKeepFirst(_, _)
MergeLoopKeepFirst(args, n) ==
    IF n = 0 THEN <<>>
    ELSE LET result == MergeLoopKeepFirst(args, n - 1)
             o == args[n].o
         IN  [k \in DOMAIN result \cup DOMAIN o |->
                 IF k \in DOMAIN result THEN result[k] ELSE o[k]]

\* result.extend(..) over the first n arguments: a later object's value for
\* a key replaces an earlier one.
RECURSIVE MergeLoop(_, _)
MergeLoop(args, n) ==
    IF n = 0 THEN <<>>
    ELSE LET result == MergeLoop(args, n - 1)
             o == args[n].o
         IN  [key \in DOMAIN result \cup DOMAIN o |->
                 IF key \in DOMAIN o THEN o[key] ELSE result[key]]

\* Merge::evaluate
Merge(args) == Ok(Obj(MergeLoop(args, Len(args))), <<>>)

\* NotNull::evaluate
NotNull(args) ==
    LET found == {i \in 1..Len(args) : args[i].k # "null"}
    IN  IF found = {} THEN Ok(Null, <<>>)
        ELSE Ok(args[CHOOSE i \in found : \A j \in found : i <= j], <<>>)

\* Reverse::evaluate
Reverse(args) ==
    IF args[1].k = "array" THEN Ok(Arr(Reversed(args[1].a)), <<>>)
    ELSE Ok(Str(Reversed(args[1].s)), <<>>)

\* Sort::evaluate
Sort(args) == Ok(Arr(StableSort(args[1].a, args[1].a)), <<>>)

\* The for loop of SortBy::evaluate from the element at index i (1-based).
\* mapped is sorted when the loop is over; the result is vals.
RECURSIVE SortByLoop(_, _, _, _, _, _)
SortByLoop(vals, a, i, mapped, first_type, calls) ==
    IF i > Len(vals) THEN
        LET sorted == StableSort(mapped, [j \in 1..Len(mapped) |-> mapped[j][2]])
        IN  Ok(Arr(vals), calls)
    ELSE LET r == intr_interpret(vals[i], a)
             called == Append(calls, vals[i])
             mapped_value == r.v
         IN  IF ~r.ok THEN Err(r.err, called)
             ELSE IF get_type(mapped_value) # first_type
                 THEN Err(InvalidReturnType(<<"expression->", first_type>>,
                                            get_type(mapped_value),
                                            mapped_value, 1, i - 1), called)
             ELSE SortByLoop(vals, a, i + 1,
                             Append(mapped, <<vals[i], mapped_value>>),
                             first_type, called)

\* SortBy::evaluate
SortBy(args) ==
    LET vals == args[1].a
        a == args[2].ast
        r == intr_interpret(vals[1], a)
        first_value == r.v
        first_type == get_type(first_value)
    IN  IF Len(vals) = 0 THEN Ok(Arr(vals), <<>>)
        ELSE IF ~r.ok THEN Err(r.err, <<vals[1]>>)
        ELSE IF first_type # "string" /\ first_type # "number"
            THEN Err(InvalidReturnType(
                        <<"expression->string|expression->number">>,
                        first_type, first_value, 1, 1), <<vals[1]>>)
        ELSE SortByLoop(vals, a, 2, <<<<vals[1], first_value>>>>, first_type,
                        <<vals[1]>>)

\* StartsWith::evaluate
StartsWith(args) ==
    Ok(Bool(Len(args[2].s) = 0 \/ OccursAt(args[1].s, args[2].s, 1)), <<>>)

\* Sum::evaluate
Sum(args) == Ok(SumF64(args[1].a, Len(args[1].a)), <<>>)

\* ToArray::evaluate
ToArray(args) ==
    IF args[1].k = "array" THEN Ok(args[1], <<>>)
    ELSE Ok(Arr(<<args[1]>>), <<>>)

\* ToNumber::evaluate: whatever value the text of a string parses to.
ToNumber(args) ==
    LET v == args[1]
    IN  CASE v.k = "number" -> Ok(v, <<>>)
          [] v.k = "string" ->
                LET f == JsonFromStr(v.s)
                IN  IF f.ok THEN Ok(f.v, <<>>) ELSE Ok(Null, <<>>)
          [] OTHER -> Ok(Null, <<>>)

\* The decimal digits of n >= 0.
RECURSIVE Digits(_)
Digits(n) ==
    LET d == <<"0", "1", "2", "3", "4", "5", "6", "7", "8", "9">>[(n % 10) + 1]
    IN  IF n < 10 THEN <<d>> ELSE Append(Digits(n \div 10), d)

\* The digits after the point of r / d, r < d (a terminating fraction).
RECURSIVE FractionDigits(_, _)
FractionDigits(r, d) ==
    IF r = 0 THEN <<>>
    ELSE Digits((r * 10) \div d) \o FractionDigits((r * 10) % d, d)

\* The JSON text of a string: quotes and backslashes escaped.
RECURSIVE JsonQuoted(_, _)
JsonQuoted(s, n) ==
    IF n = 0 THEN <<"\"">>
    ELSE JsonQuoted(s, n - 1)
         \o (IF s[n] \in {"\"", "\\"} THEN <<"\\", s[n]>> ELSE <<s[n]>>)

\* Variable::to_string: the JSON text of a value.
RECURSIVE JsonText(_)
JsonText(v) ==
    LET Items(n) ==
            IF n = 0 THEN <<>>
            ELSE JoinStrings([i \in 1..n |-> Str(JsonText(v.a[i]))], <<",">>, n)
        Members(keys) ==
            JoinStrings([i \in 1..Len(keys) |->
                            Str(JsonQuoted(keys[i], Len(keys[i])) \o <<"\"", ":">>
                                \o JsonText(v.o[keys[i]]))],
                        <<",">>, Len(keys))
    IN  CASE v.k = "null" -> TypeName("null")
          [] v.k = "boolean" ->
                IF v.b THEN <<"t", "r", "u", "e">>
                ELSE <<"f", "a", "l", "s", "e">>
          [] v.k = "number" ->
                IF v.den = 0 THEN TypeName("null")
                ELSE (IF v.num < 0 THEN <<"-">> ELSE <<>>)
                     \o Digits(AbsInt(v.num) \div v.den)
                     \o (IF v.t # "F64" THEN <<>>
                         ELSE IF AbsInt(v.num) % v.den = 0 THEN <<".", "0">>
                         ELSE <<".">> \o FractionDigits(AbsInt(v.num) % v.den,
                                                       v.den))
          [] v.k = "string" -> JsonQuoted(v.s, Len(v.s)) \o <<"\"">>
          [] v.k = "array" -> <<"[">> \o Items(Len(v.a)) \o <<"]">>
          [] v.k = "object" -> <<"{">> \o Members(SortedKeys(v.o)) \o <<"}">>

\* ToString::evaluate
ToStringFn(args) ==
    IF args[1].k = "string" THEN Ok(args[1], <<>>)
    ELSE Ok(Str(JsonText(args[1])), <<>>)

\* Type::evaluate
Type(args) == Ok(Str(TypeName(get_type(args[1]))), <<>>)

\* Values::evaluate
Values(args) ==
    LET map == args[1].o
        keys == SortedKeys(map)
    IN  Ok(Arr([i \in 1..Len(keys) |-> map[keys[i]]]), <<>>)

\* JPFunction::evaluate of the function registered under name: its
\* validate_args! line, then its body.
Evaluate(name, args) ==
    LET valid == validate_args(args, SignatureOf(name))
    IN  IF ~valid.ok THEN Err(valid.err, <<>>)
        ELSE CASE name = "abs" -> Abs(args)
               [] name = "avg" -> Avg(args)
               [] name = "ceil" -> Ceil(args)
               [] name = "contains" -> Contains(args)
               [] name = "ends_with" -> EndsWith(args)
               [] name = "floor" -> Floor(args)
               [] name = "join" -> Join(args)
               [] name = "keys" -> Keys(args)
               [] name = "length" -> Length(args)
               [] name = "map" -> Map(args)
               [] name = "min" -> Min(args)
               [] name = "max" -> Max(args)
               [] name = "max_by" -> MaxBy(args)
               [] name = "min_by" -> MinBy(args)
               [] name = "merge" -> Merge(args)
               [] name = "not_null" -> NotNull(args)
               [] name = "reverse" -> Reverse(args)
               [] name = "sort" -> Sort(args)
               [] name = "sort_by" -> SortBy(args)
               [] name = "starts_with" -> StartsWith(args)
               [] name = "sum" -> Sum(args)
               [] name = "to_array" -> ToArray(args)
               [] name = "to_number" -> ToNumber(args)
               [] name = "to_string" -> ToStringFn(args)
               [] name = "type" -> Type(args)
               [] name = "values" -> Values(args)

(***************************************************************************)
(* functions.rs as a state machine: a function is called once with a       *)
(* vector of arguments.                                                    *)
(***************************************************************************)
\* The longest array and the longest vector of arguments.
MaxElems == 3
MaxArgs == 3

key == <<"k", "e", "y">>
id == <<"i", "d">>

\* Elements of the arrays checked by kind.
Atoms ==
    { Null, I64(1), I64(2), I64(3), F64(3, 2), Str(<<"a">>), Str(<<"b">>) }

\* Elements of the arrays an expression is mapped over: key decides the
\* order, id tells elements of equal key apart.
Keyed ==
    { Obj(key :> I64(1) @@ id :> Str(<<c>>)) : c \in {"a", "b"} }
    \cup { Obj(key :> I64(2)), Obj(key :> I64(3)),
           Obj(key :> Str(<<"a">>)), Obj(key :> Str(<<"b">>)),
           Obj(key :> Null) }

Objects ==
    { Obj(<<>>), Obj(foo :> I64(1)), Obj(foo :> I64(2)),
      Obj(bar :> I64(1)), Obj(foo :> I64(1) @@ bar :> I64(2)),
      Obj(foo :> Obj(bar :> I64(1))), Obj(foo :> Obj(foo :> I64(2))) }

\* &key, &@ and &abs(key); the last fails on an element whose key is not a
\* number.
Exprefs ==
    { Expref(Identifier(key)), Expref(CurrentNode),
      Expref([t |-> "Function", name |-> "abs", args |-> <<Identifier(key)>>]) }

\* Arguments of every kind.
Mixed ==
    { Null, Bool(TRUE), I64(-1), F64(3, 2), Str(<<>>), Str(<<"a">>),
      Str(<<"1">>), Str(<<"a", "b">>), Str(<<"t", "r", "u", "e">>),
      Arr(<<>>), Arr(<<I64(1)>>), Arr(<<Str(<<"a">>), Str(<<"b">>)>>),
      Arr(<<I64(1), Str(<<"a">>)>>) }
    \cup Objects \cup Exprefs

\* Every vector of at most two arguments of any kind, the longer vectors
\* of a few, and the arrays alone and with an expression.
ArgVectors ==
    SeqsUpTo(Mixed, 2)
    \cup SeqsUpTo({Null, I64(1), Obj(foo :> I64(2)), Obj(bar :> I64(3))}, MaxArgs)
    \cup { <<Arr(a)>> : a \in SeqsUpTo(Atoms, MaxElems) }
    \cup { <<Arr(a), e>> : a \in SeqsUpTo(Keyed, MaxElems), e \in Exprefs }
    \cup { <<e, Arr(a)>> : a \in SeqsUpTo(Keyed, MaxElems), e \in Exprefs }

\* Numbers given to abs alone: the i64 minimum, a u64, negative and
\* non-finite floats.
AbsNumbers ==
    { I64Min, I64(-3), Num("U64", 5, 1), F64(-3, 2), F64(0, 1), F64(0, 0),
      F64(1, 0), F64(-1, 0) }

FunctionsInit ==
    /\ \/ fname \in Functions /\ fargs \in ArgVectors
       \/ fname = "abs" /\ fargs \in { <<n>> : n \in AbsNumbers }
    /\ fstate = "ready"
    /\ fresult = <<>>

\* The places a function body writes with a mutating method (reverse, sort,
\* sort_by, extend, push): a local of evaluate, or the container behind the
\* handle args[i] (1-based here).
Local(name) == [kind |-> "local", name |-> name, arg |-> 0]
Behind(i) == [kind |-> "arg", name |-> "", arg |-> i]

\* let mut name = args[i].as_array().unwrap(): no clone, the local is the
\* container of the argument itself.
borrowed(name, i) == Behind(i)

\* let mut name = args[i].as_array().unwrap().clone(): a local holding a copy.
cloned(name, i) == Local(name)

Write(place, val) == [place |-> place, val |-> val]

\* The mutating method calls evaluate makes once validate_args! has passed,
\* with the value each leaves in its place; r is what evaluate returns.
Writes(name, args, r) ==
    IF ~validate_args(args, SignatureOf(name)).ok THEN <<>>
    ELSE CASE name = "reverse" /\ args[1].k = "array" ->
                <<Write(cloned("values", 1), Arr(Reversed(args[1].a)))>>
           [] name = "sort" ->
                <<Write(cloned("values", 1),
                        Arr(StableSort(args[1].a, args[1].a)))>>
           [] name = "sort_by" /\ r.ok /\ Len(args[1].a) > 0 ->
                <<Write(Local("mapped"),
                        Arr(StableSort(args[1].a,
                            [i \in 1..Len(args[1].a) |->
                                intr_interpret(args[1].a[i], args[2].ast).v])))>>
           [] name = "merge" -> <<Write(Local("result"), r.val)>>
           [] name = "map" /\ r.ok -> <<Write(Local("results"), r.val)>>
           [] OTHER -> <<>>

\* The writes of ws to the container behind args[i].
Hits(ws, i) == {k \in 1..Len(ws) : ws[k].place = Behind(i)}

\* The arguments as the caller sees them once evaluate has made the writes
\* ws.
ArgsAfter(args, ws) ==
    [i \in 1..Len(args) |->
        IF Hits(ws, i) = {} THEN args[i]
        ELSE ws[CHOOSE k \in Hits(ws, i) : \A j \in Hits(ws, i) : j <= k].val]

\* JPFunction::evaluate, called by the interpreter with the evaluated
\* arguments.
Call ==
    /\ fstate = "ready"
    /\ \E overflow_checks \in BOOLEAN :
          \E r \in {Evaluate(fname, fargs)} :
              /\ IF Overflows(r) /\ overflow_checks
                 THEN fstate' = "panicked" /\ fresult' = fresult
                 ELSE /\ fstate' = "done"
                      /\ fresult' = IF Overflows(r) THEN Ok(r.val, r.calls) ELSE r
              /\ \E ws \in {Writes(fname, fargs, r)} :
                    fargs' = ArgsAfter(fargs, ws)
    /\ UNCHANGED fname
    /\ UNCHANGED <<cvars, lvars>>

InitFunctions == FunctionsInit /\ CompilerIdle /\ LexerIdle
SpecFunctions == InitFunctions /\ [][Call]_vars

(***************************************************************************)
(* Properties of the functions.                                            *)
(***************************************************************************)
Called == fstate = "done"

\* The keys sort_by sorts by: the expression applied to each element.
SortKeys ==
    [i \in 1..Len(fargs[1].a) |-> intr_interpret(fargs[1].a[i], fargs[2].ast).v]

\* C4: sort_by returns the elements of its array with their mapped keys
\* ascending, elements of equal key in their input order.
C4_SortByStableAscending ==
    (Called /\ fname = "sort_by" /\ fresult.ok)
        => fresult.val = Arr(StableSort(fargs[1].a, SortKeys))

\* C5: avg of an empty array is null, avg of a non-empty array of numbers
\* is a number.
C5_AvgOfEmptyIsNull ==
    (Called /\ fname = "avg" /\ fresult.ok)
        => IF Len(fargs[1].a) = 0 THEN fresult.val = Null
           ELSE fresult.val.k = "number" /\ fresult.val.den > 0

\* The validators of the called function, by 0-based argument index.
ValidatorAt(k) ==
    LET sig == SignatureOf(fname)
    IN  IF k < Len(sig.positional) THEN sig.positional[k + 1]
        ELSE sig.variadic[1]

\* The 0-based indexes of the arguments their validators reject.
Rejected == {k \in 0..(Len(fargs) - 1) : ~is_valid(ValidatorAt(k), fargs[k + 1])}

IsVariadic == Len(SignatureOf(fname).variadic) > 0
Expected == Len(SignatureOf(fname).positional)

\* C9: a wrong argument count is reported whatever the argument kinds, a
\* wrong kind is reported at the smallest rejected index, and neither comes
\* after any evaluation of an expression argument.
C9_ArityThenTypesThenWork ==
    Called =>
        /\ Len(fargs) < Expected =>
              fresult = Err(NotEnoughArguments(Expected, Len(fargs)), <<>>)
        /\ (Len(fargs) > Expected /\ ~IsVariadic) =>
              fresult = Err(TooManyArguments(Expected, Len(fargs)), <<>>)
        /\ ( /\ Len(fargs) = Expected \/ (Len(fargs) > Expected /\ IsVariadic)
             /\ Rejected # {} ) =>
              /\ ~fresult.ok
              /\ fresult.err.type = "InvalidType"
              /\ \A k \in Rejected : fresult.err.position <= k
              /\ fresult.err.position \in Rejected
              /\ fresult.calls = <<>>

\* sort_by called with its two arguments swapped: both are of a wrong kind
\* and the first one is reported.
C9_Witness ==
    /\ Called
    /\ fname = "sort_by"
    /\ Len(fargs) = 2
    /\ fargs[1].k = "expref" /\ fargs[2].k = "array" /\ Len(fargs[2].a) > 0
    /\ Rejected = {0, 1}
    /\ fresult = Err(InvalidType(<<"array">>, "expref", fargs[1], 0), <<>>)

\* C13: to_number returns a number or null for every argument: a number
\* unchanged, a string the number its text parses as and null when the text
\* is not a number (also when it is some other JSON value), and null for
\* every other kind.
C13_ToNumberIsNumberOrNull ==
    (Called /\ fname = "to_number" /\ fresult.ok) =>
        LET v == fargs[1]
            f == IF v.k = "string" THEN JsonFromStr(v.s) ELSE JsonErr
        IN  /\ fresult.val.k \in {"number", "null"}
            /\ v.k = "number" => fresult.val = v
            /\ v.k = "string" =>
                  fresult.val =
                      IF f.ok /\ f.v.k = "number" THEN f.v ELSE Null
            /\ v.k \notin {"number", "string"} => fresult.val = Null

\* The keys max_by and min_by compare: the expression applied to each
\* element.
ByKeys ==
    [i \in 1..Len(fargs[1].a) |->
        IF intr_interpret(fargs[1].a[i], fargs[2].ast).ok
        THEN intr_interpret(fargs[1].a[i], fargs[2].ast).v ELSE Null]

\* max_by or min_by was called with an array and an expression.
CalledBy ==
    /\ Called
    /\ fname \in {"max_by", "min_by"}
    /\ Len(fargs) = 2
    /\ fargs[1].k = "array"
    /\ fargs[2].k = "expref"

\* Key a comes before key b in the direction the function looks for: greater
\* for max_by, less for min_by.
Beats(a, b) == IF fname = "max_by" THEN VarLess(b, a) ELSE VarLess(a, b)

\* C14: for a non-empty array whose mapped keys are all numbers or all
\* strings, max_by (min_by) returns the element, not the key, whose key no
\* other key is greater (less) than, the one of lowest index among those of
\* equal extremal key; for an empty array it returns null and the expression
\* is never evaluated.
C14_ByReturnsFirstExtremalElement ==
    CalledBy =>
        LET vals == fargs[1].a
            n == Len(vals)
        IN  IF n = 0 THEN fresult = Ok(Null, <<>>)
            ELSE ( \/ \A i \in 1..n : ByKeys[i].k = "number"
                   \/ \A i \in 1..n : ByKeys[i].k = "string" ) =>
                     /\ fresult.ok
                     /\ \E j \in 1..n :
                           /\ fresult.val = vals[j]
                           /\ \A i \in 1..n : ~Beats(ByKeys[i], ByKeys[j])
                           /\ \A i \in 1..(j - 1) : Beats(ByKeys[j], ByKeys[i])

\* min_by on three elements, the least key held by the last two, which
\* differ: the first of the two is returned.
C14_Witness ==
    /\ CalledBy
    /\ fname = "min_by"
    /\ Len(fargs[1].a) = 3
    /\ ByKeys[2] = ByKeys[3]
    /\ VarLess(ByKeys[2], ByKeys[1])
    /\ fargs[1].a[2] # fargs[1].a[3]
    /\ fresult = Ok(fargs[1].a[2], fargs[1].a)

\* A value satisfies one of the plain types a HomogeneousArray lists.
Satisfies(type, value) ==
    CASE type.t = "String" -> value.k = "string"
      [] type.t = "Number" -> value.k = "number"
      [] OTHER -> FALSE

\* What a HomogeneousArray(types) validator is to accept: an array, each
\* element of a listed type and of the kind of the first element.
AcceptsHomogeneous(types, value) ==
    /\ value.k = "array"
    /\ \A i \in 1..Len(value.a) :
          /\ \E t \in 1..Len(types) : Satisfies(types[t], value.a[i])
          /\ value.a[i].k = value.a[1].k

\* The call failed on the kind of the argument at 0-based index k.
InvalidTypeAt(k) ==
    ~fresult.ok /\ fresult.err.type = "InvalidType" /\ fresult.err.position = k

\* C15: a HomogeneousArray(types) validator accepts a value exactly when it
\* is an array whose elements each satisfy one of the listed types and all
\* have the kind of the first element; the empty array is accepted and a
\* value that is no array is rejected.  Seen at each argument such a validator
\* guards, once the count and the arguments before it have passed.
C15_HomogeneousArrayAccepts ==
    (Called /\ Len(fargs) = Expected) =>
        \A k \in 0..(Len(fargs) - 1) :
            ( /\ ValidatorAt(k).t = "HomogeneousArray"
              /\ \A j \in 0..(k - 1) : ~InvalidTypeAt(j) ) =>
                ( InvalidTypeAt(k) <=>
                      ~AcceptsHomogeneous(ValidatorAt(k).types, fargs[k + 1]) )

\* max of an array holding a number and a string: each element is of a
\* listed type, the kinds differ, and the array is rejected.
C15_Witness ==
    /\ Called
    /\ fname = "max"
    /\ fargs = <<Arr(<<I64(1), Str(<<"a">>)>>)>>
    /\ InvalidTypeAt(0)

\* 1-based index of the character the next token starts with.
Opening == TokenStart + 1

\* The character at 1-based index j > p is taken by a backslash before it:
\* backslashes pair up with the character after them from the left.
RECURSIVE EscapedAt(_, _, _)
EscapedAt(src, p, j) ==
    /\ j > p + 1
    /\ src[j - 1] = "\\"
    /\ ~EscapedAt(src, p, j - 1)

\* The indexes after p of the delimiters w that no backslash takes.
Closers(src, p, w) ==
    {j \in (p + 1)..Len(src) : src[j] = w /\ ~EscapedAt(src, p, j)}

\* The token an unclosed span opened by w at index p is yielded as.
UnclosedError(src, p, w) ==
    TokError(<<w>> \o SubSeq(src, p + 1, Len(src)),
             <<"Unclosed ", w, " delimiter">>)

\* The last token yielded so far is the error of an unclosed span.
AfterUnclosed ==
    /\ lstate = "lexing"
    /\ Len(yielded) > 0
    /\ \E w \in Delimiters :
          yielded[Len(yielded)][2].type = "Error"
          /\ yielded[Len(yielded)][2].msg = <<"Unclosed ", w, " delimiter">>

\* C16: a quoted identifier, raw string or JSON literal that is opened and
\* not closed by an unescaped delimiter before the input ends (also when the
\* input ends right after a backslash) is yielded as one Error token at the
\* offset of the opening delimiter, its value the delimiter followed by every
\* character after it and its msg "Unclosed <delimiter> delimiter"; the
\* token yielded next is Eof.
C16_UnclosedSpanIsOneError ==
    [][ /\ ( LexNext /\ \E w \in Delimiters :
                            TokenStartsWith(w) /\ Closers(source, Opening, w) = {} )
             => /\ Yielded
                /\ LastYielded =
                      <<ByteOffset(source, TokenStart),
                        UnclosedError(source, Opening, source[Opening])>>
        /\ (LexNext /\ AfterUnclosed)
             => Yielded /\ LastYielded[2] = Tok("Eof") ]_vars

\* A raw string whose only quote after the opening one is escaped, so the
\* input ends inside the span: the error holds the whole source and Eof
\* follows it.
C16_Witness ==
    /\ source = <<"'", "a", "\\", "'">>
    /\ Len(yielded) = 2
    /\ yielded[1] = <<0, UnclosedError(source, 1, "'")>>
    /\ yielded[2][2] = Tok("Eof")

\* The first delimiter after the opening one that no backslash takes.
Closing(src, p, w) ==
    CHOOSE j \in Closers(src, p, w) : \A k \in Closers(src, p, w) : j <= k

\* The token of a closed span opened by w, from the text between the
\* delimiters.
SpanToken(w, inner) ==
    CASE w = "\"" -> QuotedIdentifierOf(inner)
      [] w = "'" -> TokLiteral(Str(inner))
      [] w = Backtick -> LiteralOf(inner)

\* C17: inside a quoted identifier, raw string or JSON literal a backslash
\* and the character after it are both kept and that character does not
\* close the span, even when it is the delimiter: the span ends at the first
\* delimiter no backslash takes, the token is made from the whole text
\* between the delimiters, and a raw string is Literal(String(inner)) with
\* that text unchanged, backslashes included.
C17_EscapedDelimiterStaysInSpan ==
    [][ ( LexNext /\ \E w \in Delimiters :
                         TokenStartsWith(w) /\ Closers(source, Opening, w) # {} )
          => LET w == source[Opening]
                 c == Closing(source, Opening, w)
             IN  /\ Yielded
                 /\ iter' = c
                 /\ LastYielded =
                       <<ByteOffset(source, TokenStart),
                         SpanToken(w, SubSeq(source, Opening + 1, c - 1))>> ]_vars

\* The raw string '\'a': the escaped quote does not close it, and the
\* literal keeps the backslash.
C17_Witness ==
    /\ source = <<"'", "\\", "'", "a", "'">>
    /\ Len(yielded) >= 1
    /\ yielded[1] = <<0, TokLiteral(Str(<<"\\", "'", "a">>))>>
    /\ iter = 5

\* The tokens of two characters: first character, second character, token.
TwoCharacterForms ==
    { <<"[", "]", Tok("Flatten")>>, <<"[", "?", Tok("Filter")>>,
      <<"|", "|", Tok("Or")>>, <<">", "=", Tok("Gte")>>,
      <<"<", "=", Tok("Lte")>>, <<"!", "=", Tok("Ne")>>,
      <<"=", "=", Tok("Eq")>> }

\* The token each of their first characters is when it stands alone.
SingleForm(ch) ==
    CASE ch = "[" -> Tok("Lbracket")
      [] ch = "|" -> Tok("Pipe")
      [] ch = ">" -> Tok("Gt")
      [] ch = "<" -> Tok("Lt")
      [] ch = "!" -> Tok("Not")
      [] ch = "=" -> TokError(<<"=">>, <<"Did you mean \"==\"?">>)

\* The two-character forms the next token and the character right after its
\* first character make.
FormsHere ==
    { f \in TwoCharacterForms :
        /\ source[Opening] = f[1]
        /\ Opening < Len(source)
        /\ source[Opening + 1] = f[2] }

\* C18: at each of [ | > < ! = the lexer yields the token of two characters
\* exactly when the character right after is the second character of that
\* form, and takes both; otherwise it yields the single form and leaves the
\* character after it to start the next token.
C18_CompoundTokensByOneLookahead ==
    [][ ( LexNext /\ \E ch \in {"[", "|", ">", "<", "!", "="} :
                         TokenStartsWith(ch) )
          => /\ Yielded
             /\ LastYielded[1] = ByteOffset(source, TokenStart)
             /\ IF FormsHere # {}
                THEN /\ \E f \in FormsHere : LastYielded[2] = f[3]
                     /\ iter' = TokenStart + 2
                ELSE /\ LastYielded[2] = SingleForm(source[Opening])
                     /\ iter' = TokenStart + 1 ]_vars

\* The source <==: Lte takes two characters and the = left over is the
\* single form, the error.
C18_Witness ==
    /\ source = <<"<", "=", "=">>
    /\ Len(yielded) >= 2
    /\ yielded[1] = <<0, Tok("Lte")>>
    /\ yielded[2] = <<2, SingleForm("=")>>

\* Every token of src without its offset, the iterator after each token,
\* and whether a call panicked.
Collected(src) ==
    CollectFrom(src, 0, FALSE, [tokens |-> <<>>, ends |-> <<>>, panic |-> FALSE])

\* The lexer is done with the source: next() returned None or panicked.
LexerDone == lstate \in {"finished", "panicked"}

\* What the calls made on the source: the tokens without their offsets, and
\* whether the last call panicked.
Outcome ==
    [tokens |-> [i \in 1..Len(yielded) |-> yielded[i][2]],
     panic |-> lstate = "panicked"]

\* The same of another source.
OutcomeOf(src) == [x \in {"tokens", "panic"} |-> Collected(src)[x]]

\* The token is the error of a span that was opened and not closed.
IsUnclosed(tok) ==
    tok.type = "Error" /\ \E w \in Delimiters : tok.msg = <<"Unclosed ", w, " delimiter">>

\* The places between the tokens of src: the number of characters before
\* each place, from the end of a token (or the start of src) up to the
\* start of the token after it.  A span that is not closed runs to the end
\* of src, and no place from its opening on is between tokens.
Boundaries(src) ==
    LET c == Collected(src)
        after == {0} \cup {c.ends[i] : i \in 1..Len(c.ends)}
        open == \E i \in 1..Len(c.tokens) : IsUnclosed(c.tokens[i])
    IN  {p \in 0..Len(src) :
            /\ \E e \in after : e <= p /\ p <= SkipWhitespace(src, e)
            /\ open => p < Len(src)}

\* One of each character the whitespace arm of next() skips.
WhitespaceRun == <<" ", "\t", "\n", "\r">>

\* src with the characters ws put after its first p characters.
Inserted(src, p, ws) == SubSeq(src, 1, p) \o ws \o SubSeq(src, p + 1, Len(src))

\* src without its character at index q.
Removed(src, q) == SubSeq(src, 1, q - 1) \o SubSeq(src, q + 1, Len(src))

\* The whitespace at index q of src stands between the two characters of a
\* token of two characters.
SplitsCompound(src, q) ==
    \E f \in TwoCharacterForms : \E i \in 1..(q - 1) : \E j \in (q + 1)..Len(src) :
        /\ src[i] = f[1]
        /\ src[j] = f[2]
        /\ \A k \in (i + 1)..(j - 1) : IsWhitespace(src[k])

\* Putting a space, a tab, a newline and a carriage return at any place
\* between two tokens of the source, before the first or after the last,
\* leaves the tokens as they are.
InsertionKeepsTokens ==
    \A p \in Boundaries(source) :
        OutcomeOf(Inserted(source, p, WhitespaceRun)) = Outcome

\* Taking away one whitespace character that stands between two tokens of
\* the source, and not between the two characters of a compound token,
\* leaves the tokens as they are.
RemovalKeepsTokens ==
    \A q \in 1..Len(source) :
        ( /\ IsWhitespace(source[q])
          /\ (q - 1) \in Boundaries(source)
          /\ ~SplitsCompound(source, q) ) =>
            OutcomeOf(Removed(source, q)) = Outcome

\* C19 as stated: two sources that differ only by whitespace between tokens,
\* outside every span and not between the two characters of a compound
\* token, yield the same tokens, offsets aside, whichever of the two holds
\* the whitespace.
C19_WhitespaceBetweenTokensIrrelevant ==
    LexerDone => InsertionKeepsTokens /\ RemovalKeepsTokens

\* C19, amended: whitespace put between two tokens of a source, before its
\* first token or after its last, and not after the opening of a span that
\* is never closed, leaves the sequence of tokens, offsets aside, as it is.
C19_InsertedWhitespaceKeepsTokens ==
    LexerDone => InsertionKeepsTokens

\* A source of three tokens with no whitespace: whitespace put between the
\* first two leaves Lbracket, Identifier, Rbracket and Eof.
C19_Witness ==
    /\ LexerDone
    /\ source = <<"[", "a", "]">>
    /\ OutcomeOf(Inserted(source, 1, WhitespaceRun)) = Outcome
    /\ Len(Outcome.tokens) = 4
    /\ Boundaries(source) = {0, 1, 2, 3}

\* merge was called with one or more arguments, all of them objects.
CalledMerge ==
    /\ Called
    /\ fname = "merge"
    /\ Len(fargs) >= 1
    /\ \A i \in 1..Len(fargs) : fargs[i].k = "object"

\* The arguments that hold the key k.
Holders(k) == {i \in 1..Len(fargs) : k \in DOMAIN fargs[i].o}

\* The rightmost of them.
LastHolder(k) == CHOOSE i \in Holders(k) : \A j \in Holders(k) : j <= i

\* C20: merge of n >= 1 objects returns an object whose keys are the keys of
\* all the arguments, each with the value it has in the rightmost argument
\* that holds it; that value is taken whole, objects inside it are not
\* merged with the ones of earlier arguments.
C20_MergeRightmostWinsShallow ==
    CalledMerge =>
        /\ fresult.ok
        /\ fresult.val.k = "object"
        /\ DOMAIN fresult.val.o = UNION {DOMAIN fargs[i].o : i \in 1..Len(fargs)}
        /\ \A k \in DOMAIN fresult.val.o :
              fresult.val.o[k] = fargs[LastHolder(k)].o[k]

\* Two arguments that hold different objects under the same key: the result
\* is the second argument, not a merge of the two inner objects.
C20_Witness ==
    /\ CalledMerge
    /\ fargs = <<Obj(foo :> Obj(bar :> I64(1))), Obj(foo :> Obj(foo :> I64(2)))>>
    /\ fresult = Ok(fargs[2], <<>>)

\* map, sort_by, max_by or min_by was called with an array and an
\* expression, each in its place.
CalledWithExpref ==
    /\ Called
    /\ fname \in {"map", "sort_by", "max_by", "min_by"}
    /\ Len(fargs) = 2
    /\ {fargs[1].k, fargs[2].k} = {"array", "expref"}
    /\ (fname = "map") = (fargs[1].k = "expref")

\* The array and the expression of that call.
ExprefArray == IF fname = "map" THEN fargs[2].a ELSE fargs[1].a
ExprefAst == IF fname = "map" THEN fargs[1].ast ELSE fargs[2].ast

\* What the expression gives for the element at index i.
Applied(i) == intr_interpret(ExprefArray[i], ExprefAst)

\* C21: map, sort_by, max_by and min_by apply the expression to the elements
\* in increasing index order, and the first runtime error an application
\* returns is what the function returns: no later element is evaluated, no
\* partial result is returned and null is not put in its place.  map stops
\* for no other reason, so it fails whenever some application fails.
C21_ExprefErrorStopsTheCall ==
    CalledWithExpref =>
        LET n == Len(fresult.calls)
        IN  /\ n <= Len(ExprefArray)
            /\ fresult.calls = SubSeq(ExprefArray, 1, n)
            /\ \A i \in 1..n :
                  ~Applied(i).ok =>
                      /\ i = n
                      /\ fresult = Err(Applied(i).err, SubSeq(ExprefArray, 1, i))
            /\ ( /\ fname = "map"
                 /\ \E i \in 1..Len(ExprefArray) : ~Applied(i).ok ) => ~fresult.ok

\* map of three elements whose second has a string for key, with &abs(key):
\* the error of abs is returned and the third element is never evaluated.
C21_Witness ==
    /\ CalledWithExpref
    /\ fname = "map"
    /\ Len(ExprefArray) = 3
    /\ Applied(1).ok /\ ~Applied(2).ok /\ Applied(3).ok
    /\ fresult = Err(Applied(2).err, SubSeq(ExprefArray, 1, 2))
    /\ fresult.err.type = "InvalidType"

\* abs of one number.
CalledAbs == fname = "abs" /\ Len(fargs) = 1 /\ fargs[1].k = "number"
Returned == fstate # "ready"

\* n >= 0 for a number of the model: i64::MIN is negative, NaN compares
\* false with everything.
IsNaN(n) == n.den = 0 /\ n.num = 0
NonNegative(n) == n # I64Min /\ ~IsNaN(n) /\ n.num >= 0

\* a = b and a = -b as numbers.
SameNumber(a, b) ==
    \/ a = I64Min /\ b = I64Min
    \/ /\ a # I64Min /\ b # I64Min /\ ~IsNaN(a) /\ ~IsNaN(b)
       /\ a.num * b.den = b.num * a.den
       /\ (a.den = 0) = (b.den = 0)
Negated(a, b) ==
    /\ a # I64Min /\ b # I64Min /\ ~IsNaN(a) /\ ~IsNaN(b)
    /\ a.num * b.den = -(b.num * a.den)
    /\ (a.den = 0) = (b.den = 0)

\* C22: for every Number argument n (i64, u64 or float) abs returns, without
\* overflow or abort, a number that is >= 0 and equal to n or to -n, the i64
\* minimum -2^63 included.
C22_AbsIsNonNegativeMagnitude ==
    (Returned /\ CalledAbs) =>
        /\ fstate = "done"
        /\ fresult.ok
        /\ fresult.val.k = "number"
        /\ NonNegative(fresult.val)
        /\ SameNumber(fresult.val, fargs[1]) \/ Negated(fresult.val, fargs[1])

\* C23: no built-in function mutates its arguments: when a call returns,
\* with a value or with an error, every argument array and object holds the
\* elements or key/value pairs it held before the call, in the same order.
C23_ArgumentsUnchangedByCall == [][fargs' = fargs]_vars

\* A sort or a reverse returned an array in another order than its
\* argument's, which is still in the order it was given in.
C23_Witness ==
    /\ Called /\ fname \in {"sort", "reverse"} /\ fresult.ok
    /\ fargs[1].k = "array"
    /\ fresult.val # fargs[1]
    /\ Writes(fname, fargs, fresult) # <<>>

\* The offsets compile_with_offset is compared over.
MaxOffset == 3
Offsets == 0..MaxOffset

\* Every Or and Condition node of a, which starts at index s of program p,
\* has its branch targets counted from its own first instruction: the Brt
\* and the Br target the node's length, the Brf the node's Push(Null).
RECURSIVE TargetsRelativeToNode(_, _, _)
TargetsRelativeToNode(a, s, p) ==
    IF ~IsBinary(a) THEN TRUE
    ELSE /\ TargetsRelativeToNode(a.lhs, s, p)
         /\ TargetsRelativeToNode(a.rhs, RhsStart(a, s), p)
         /\ a.t = "Or" =>
               At(p, s + NodeLen(a.lhs) + 1) = OpBrt(NodeLen(a))
         /\ a.t = "Condition" =>
               /\ At(p, s + NodeLen(a.lhs) + 2) = OpBrf(NodeLen(a) - 1)
               /\ At(p, s + NodeLen(a) - 2) = OpBr(NodeLen(a))

\* C24: the opcodes compile_with_offset(ast, k) returns are the same for
\* every offset k, so every branch target is an index counted from the first
\* instruction of the node that emitted it, not from the start of the
\* program.
C24_OffsetHasNoInfluence ==
    cstate = "compiled" =>
        /\ \A k \in Offsets :
              \E overflow_checks \in BOOLEAN :
                  Append(compile_with_offset(ast, k, overflow_checks), OpHalt)
                      = opcodes
        /\ TargetsRelativeToNode(ast, 0, opcodes)

\* A compiled program with a branching node that does not start at index 0:
\* compile_with_offset was called on it with an offset other than 0.
C24_Witness ==
    /\ cstate = "compiled"
    /\ ast.t = "Or"
    /\ ast.rhs.t \in {"Or", "Condition"}
    /\ \E i \in 1..Len(opcodes) : IsBranch(opcodes[i]) /\ i > NodeLen(ast.lhs) + 2

\* Offsets of the yielded tokens strictly increase.
OffsetsStrictlyIncrease ==
    \A i \in 1..(Len(yielded) - 1) : yielded[i][1] < yielded[i + 1][1]

\* No more tokens are yielded than the source has characters, plus Eof.
TokenCountBounded == Len(yielded) <= Len(source) + 1

\* A call that yields a token other than Eof yields it at the offset of the
\* first character after the whitespace and consumes that character at least.
YieldConsumes ==
    (LexNext /\ Yielded /\ LastYielded[2] # Tok("Eof")) =>
        /\ LastYielded[1] = ByteOffset(source, TokenStart)
        /\ iter' > TokenStart
        /\ iter' <= Len(source)

\* An Error token does not end the stream: Eof is not sent with it and the
\* next call goes on from the iterator the erroneous token left.
ErrorResumes ==
    (LexNext /\ Yielded /\ LastYielded[2].type = "Error") =>
        /\ lstate' = "lexing"
        /\ ~sent_eof'
        /\ ENABLED LexNext

\* What C25 says of the calls that return, leaving aside whether every call
\* returns.
LexerProgress ==
    /\ [](OffsetsStrictlyIncrease /\ TokenCountBounded)
    /\ [][YieldConsumes /\ ErrorResumes]_vars

\* C25: for every source, each next() call that yields a token other than
\* Eof consumes at least one character, so the offsets strictly increase and
\* Eof is yielded within length(source) + 1 tokens (no call aborts before
\* it); an Error token does not end the stream, lexing goes on at the first
\* character the erroneous token did not consume.
C25_EveryTokenConsumesAndEofIsReached ==
    /\ LexerProgress
    /\ [](lstate # "panicked")

\* max_by, min_by or sort_by was called with an array and an expression.
CalledSortOrBy == CalledWithExpref /\ fname \in {"max_by", "min_by", "sort_by"}

\* The mapped key of the element at index i (1-based) is neither a string
\* nor a number, or is of another kind than the first element's.
BadKeyAt(i) ==
    /\ Applied(i).ok
    /\ \/ get_type(Applied(i).v) \notin {"string", "number"}
       \/ Applied(1).ok /\ get_type(Applied(i).v) # get_type(Applied(1).v)

\* The element at index i is the first the call cannot go past, and its
\* mapped key is why.
Offending(i) ==
    /\ i \in 1..Len(ExprefArray)
    /\ BadKeyAt(i)
    /\ \A j \in 1..(i - 1) : Applied(j).ok /\ ~BadKeyAt(j)

\* The call returned InvalidReturnType for its argument at position 1.
ReturnedInvalidReturnType(r) ==
    /\ ~r.ok
    /\ r.err.type = "InvalidReturnType"
    /\ r.err.position = 1

\* The same function and expression called on another array.
OtherCall(vals) == Evaluate(fname, <<Arr(vals), fargs[2]>>)

\* The call fails with InvalidReturnType at position 1 on the offending
\* element, the last it evaluated.
ReportsOffendingElement ==
    CalledSortOrBy =>
        \A i \in 1..Len(ExprefArray) :
            Offending(i) =>
                /\ ReturnedInvalidReturnType(fresult)
                /\ Len(fresult.calls) = i

\* Two failures of the same function and expression whose offending elements
\* are at different indices, none of them the first element, carry different
\* invocation values.
InvocationsDifferPastFirst ==
    (CalledSortOrBy /\ ReturnedInvalidReturnType(fresult)
                    /\ Len(fresult.calls) > 1) =>
        \A vals \in SeqsUpTo(Keyed, MaxElems) :
            ( /\ ReturnedInvalidReturnType(OtherCall(vals))
              /\ Len(OtherCall(vals).calls) > 1
              /\ Len(OtherCall(vals).calls) # Len(fresult.calls) ) =>
                OtherCall(vals).err.invocation # fresult.err.invocation

\* C26: when the mapped key of some element of a non-empty array given to
\* max_by, min_by or sort_by is neither a string nor a number, or is of
\* another kind than the first element's, the call returns InvalidReturnType
\* with position 1 and an invocation that identifies the offending element:
\* failures whose offending elements are at different indices carry different
\* invocation values.
C26_InvocationIdentifiesElement ==
    /\ ReportsOffendingElement
    /\ (CalledSortOrBy /\ ReturnedInvalidReturnType(fresult)) =>
          \A vals \in SeqsUpTo(Keyed, MaxElems) :
              ( /\ ReturnedInvalidReturnType(OtherCall(vals))
                /\ Len(OtherCall(vals).calls) # Len(fresult.calls) ) =>
                  OtherCall(vals).err.invocation # fresult.err.invocation

====
